---- MODULE Spec2Model ----
(***************************************************************************)
(* State-machine model of the RISC-V Tomasulo simulator: one Tick of       *)
(* CPU::Tick is one step.  32-bit quantities are kept as two's-complement  *)
(* integers in -2^31 .. 2^31-1 (an unsigned value u >= 2^31 is u - 2^32).  *)
(***************************************************************************)
EXTENDS Integers, Sequences, FiniteSets, TLC

-----------------------------------------------------------------------------
(* 32-bit arithmetic, as the C++ operators on int32_t / uint32_t compute it *)

MaxInt == 2147483647

MinInt == (-MaxInt) - 1

\* a + b modulo 2^32
Add32(a, b) ==
  IF b >= 0
    THEN IF a > MaxInt - b THEN ((a - MaxInt) - 1) + ((b - MaxInt) - 1) ELSE a + b
    ELSE IF a < MinInt - b THEN ((a + MaxInt) + 1) + ((b + MaxInt) + 1) ELSE a + b

Neg32(a) == IF a = MinInt THEN MinInt ELSE 0 - a

Sub32(a, b) == Add32(a, Neg32(b))

\* static_cast<uint32_t>(a) < static_cast<uint32_t>(b)
ULT(a, b) == IF (a < 0) = (b < 0) THEN a < b ELSE b < 0

\* a << s, 0 <= s <= 31
Shl32(a, s) ==
  IF s = 0 THEN a
  ELSE LET h == 2 ^ (31 - s)
           m == IF s = 1 THEN (IF a < 0 THEN a - MinInt ELSE a) ELSE a % (2 * h)
       IN  IF m >= h THEN (((m - h) - h) * (2 ^ (s - 1))) * 2 ELSE (m * (2 ^ (s - 1))) * 2

\* a >> s on int32_t (arithmetic), 0 <= s <= 31
Sra32(a, s) == IF s = 31 THEN (IF a < 0 THEN -1 ELSE 0) ELSE a \div (2 ^ s)

\* static_cast<uint32_t>(a) >> s, 0 <= s <= 31
Srl32(a, s) ==
  IF s = 31 THEN (IF a < 0 THEN 1 ELSE 0)
  ELSE IF s = 0 \/ a >= 0 THEN a \div (2 ^ s)
  ELSE ((a \div (2 ^ s)) + 2 ^ (31 - s)) + 2 ^ (31 - s)

\* bits lo .. lo+n-1 of word w, as a natural (lo + n <= 31, or n = 1 for bit 31)
Bits(w, lo, n) ==
  IF lo = 31 THEN (IF w < 0 THEN 1 ELSE 0) ELSE (w \div (2 ^ lo)) % (2 ^ n)

\* the low 31 bits of a, and its sign bit
Low31(a) == IF a < 0 THEN a - MinInt ELSE a

RECURSIVE BitOp(_, _, _, _)
\* bitwise combination of naturals x, y over n bits; f is "and", "or" or "xor"
BitOp(f, x, y, n) ==
  IF n = 0 THEN 0
  ELSE LET bx == x % 2
           by == y % 2
           b  == CASE f = "and" -> IF bx = 1 /\ by = 1 THEN 1 ELSE 0
                   [] f = "or"  -> IF bx = 1 \/ by = 1 THEN 1 ELSE 0
                   [] OTHER     -> IF bx # by THEN 1 ELSE 0
       IN  b + 2 * BitOp(f, x \div 2, y \div 2, n - 1)

Bitwise32(f, a, b) ==
  LET lo == BitOp(f, Low31(a), Low31(b), 31)
      sa == IF a < 0 THEN 1 ELSE 0
      sb == IF b < 0 THEN 1 ELSE 0
      s  == BitOp(f, sa, sb, 1)
  IN  IF s = 1 THEN lo + MinInt ELSE lo

And32(a, b) == Bitwise32("and", a, b)

-----------------------------------------------------------------------------
(* riscv::decode *)

\* sign_extend(value, bits): value is a natural below 2^bits
sign_extend(value, bits) ==
  IF Bits(value, bits - 1, 1) = 1 THEN value - 2 ^ bits ELSE value

Invalid == [type |-> "invalid", op |-> "none", rd |-> 0, rs1 |-> 0, rs2 |-> 0, imm |-> 0]

Instr(t, o, d, s1, s2, i) ==
  [type |-> t, op |-> o, rd |-> d, rs1 |-> s1, rs2 |-> s2, imm |-> i]

decode(instruction) ==
  LET opcode == Bits(instruction, 0, 7)
      rd     == Bits(instruction, 7, 5)
      funct3 == Bits(instruction, 12, 3)
      rs1    == Bits(instruction, 15, 5)
      rs2    == Bits(instruction, 20, 5)
      funct7 == Bits(instruction, 25, 7)
      immI   == sign_extend(Bits(instruction, 20, 11) + 2048 * Bits(instruction, 31, 1), 12)
      immU   == instruction - Bits(instruction, 0, 12)
      immJ   == sign_extend(Bits(instruction, 12, 8) * 4096 + Bits(instruction, 20, 1) * 2048
                            + Bits(instruction, 21, 10) * 2 + Bits(instruction, 31, 1) * 1048576, 21)
      immB   == sign_extend(Bits(instruction, 7, 1) * 2048 + Bits(instruction, 8, 4) * 2
                            + Bits(instruction, 25, 6) * 32 + Bits(instruction, 31, 1) * 4096, 13)
      immS   == sign_extend(Bits(instruction, 7, 5) + funct7 * 32, 12)
  IN  CASE opcode = 55  -> Instr("U", "LUI", rd, 0, 0, immU)
        [] opcode = 23  -> Instr("U", "AUIPC", rd, 0, 0, immU)
        [] opcode = 111 -> Instr("J", "JAL", rd, 0, 0, immJ)
        [] opcode = 103 -> Instr("I", "JALR", rd, rs1, 0, immI)
        [] opcode = 99  ->
             CASE funct3 = 0 -> Instr("B", "BEQ", 0, rs1, rs2, immB)
               [] funct3 = 1 -> Instr("B", "BNE", 0, rs1, rs2, immB)
               [] funct3 = 4 -> Instr("B", "BLT", 0, rs1, rs2, immB)
               [] funct3 = 5 -> Instr("B", "BGE", 0, rs1, rs2, immB)
               [] funct3 = 6 -> Instr("B", "BLTU", 0, rs1, rs2, immB)
               [] funct3 = 7 -> Instr("B", "BGEU", 0, rs1, rs2, immB)
               [] OTHER -> Invalid
        [] opcode = 3   ->
             CASE funct3 = 0 -> Instr("I", "LB", rd, rs1, 0, immI)
               [] funct3 = 1 -> Instr("I", "LH", rd, rs1, 0, immI)
               [] funct3 = 2 -> Instr("I", "LW", rd, rs1, 0, immI)
               [] funct3 = 4 -> Instr("I", "LBU", rd, rs1, 0, immI)
               [] funct3 = 5 -> Instr("I", "LHU", rd, rs1, 0, immI)
               [] OTHER -> Invalid
        [] opcode = 35  ->
             CASE funct3 = 0 -> Instr("S", "SB", 0, rs1, rs2, immS)
               [] funct3 = 1 -> Instr("S", "SH", 0, rs1, rs2, immS)
               [] funct3 = 2 -> Instr("S", "SW", 0, rs1, rs2, immS)
               [] OTHER -> Invalid
        [] opcode = 19  ->
             CASE funct3 = 0 -> Instr("I", "ADDI", rd, rs1, 0, immI)
               [] funct3 = 2 -> Instr("I", "SLTI", rd, rs1, 0, immI)
               [] funct3 = 3 -> Instr("I", "SLTIU", rd, rs1, 0, immI)
               [] funct3 = 4 -> Instr("I", "XORI", rd, rs1, 0, immI)
               [] funct3 = 6 -> Instr("I", "ORI", rd, rs1, 0, immI)
               [] funct3 = 7 -> Instr("I", "ANDI", rd, rs1, 0, immI)
               [] funct3 = 1 -> Instr("I", "SLLI", rd, rs1, 0, And32(immI, 31))
               [] funct3 = 5 ->
                    IF Sra32(immI, 5) = 32
                      THEN Instr("I", "SRAI", rd, rs1, 0, And32(immI, 31))
                      ELSE Instr("I", "SRLI", rd, rs1, 0, And32(immI, 31))
               [] OTHER -> Invalid
        [] opcode = 51  ->
             CASE funct3 = 0 -> Instr("R", IF funct7 = 32 THEN "SUB" ELSE "ADD", rd, rs1, rs2, 0)
               [] funct3 = 1 -> Instr("R", "SLL", rd, rs1, rs2, 0)
               [] funct3 = 2 -> Instr("R", "SLT", rd, rs1, rs2, 0)
               [] funct3 = 3 -> Instr("R", "SLTU", rd, rs1, rs2, 0)
               [] funct3 = 4 -> Instr("R", "XOR", rd, rs1, rs2, 0)
               [] funct3 = 5 -> Instr("R", IF funct7 = 32 THEN "SRA" ELSE "SRL", rd, rs1, rs2, 0)
               [] funct3 = 6 -> Instr("R", "OR", rd, rs1, rs2, 0)
               [] funct3 = 7 -> Instr("R", "AND", rd, rs1, rs2, 0)
               [] OTHER -> Invalid
        [] OTHER -> Invalid

-----------------------------------------------------------------------------
(* Constants of the program *)

\* std::numeric_limits<uint32_t>::max(), the "no pending tag" value
NO_TAG == -1

\* capacity of the ROB and RS queues and of the LSB array
ROB_SIZE == 32

RS_SIZE == 32

LSB_SIZE == 32

\* variant: a memory operation of four ticks
LATENCY_Four == 3 + 1

\* cycles_remaining set when an LSB entry starts executing
LATENCY == 3

-----------------------------------------------------------------------------
(* CircularQueue<T>: arr, capacity, frontIdx, rearIdx, count *)

NewQueue(size, dflt) ==
  [arr |-> [k \in 0 .. size - 1 |-> dflt], capacity |-> size,
   frontIdx |-> 0, rearIdx |-> -1, count |-> 0]

isEmpty(q) == q.count = 0

isFull(q) == q.count = q.capacity

get(q, index) == q.arr[(q.frontIdx + index) % q.capacity]

front(q) == q.arr[q.frontIdx]

enqueue(q, value) ==
  IF isFull(q) THEN q
  ELSE LET r == (q.rearIdx + 1) % q.capacity
       IN  [q EXCEPT !.rearIdx = r, !.arr[r] = value, !.count = q.count + 1]

dequeue(q) ==
  IF isEmpty(q) THEN q
  ELSE [q EXCEPT !.frontIdx = (q.frontIdx + 1) % q.capacity, !.count = q.count - 1]

\* remove(index): shifts arr[index+1 .. count-1] down by physical index and
\* decrements count; frontIdx and rearIdx are left as they are
remove(q, index) ==
  IF index < 0 \/ index >= q.count THEN q
  ELSE [q EXCEPT !.arr = [k \in DOMAIN q.arr |->
                            IF k >= index /\ k < q.count - 1 THEN q.arr[k + 1] ELSE q.arr[k]],
                 !.count = q.count - 1]

\* the entries get(0) .. get(size-1), head first
Visible(q) == [i \in 1 .. q.count |-> get(q, i - 1)]

-----------------------------------------------------------------------------
(* ALU::execute *)

Shamt(b) == Bits(b, 0, 5)

execute(a, b, op) ==
  CASE op \in {"ADD", "ADDI"}   -> Add32(a, b)
    [] op = "SUB"               -> Sub32(a, b)
    [] op \in {"AND", "ANDI"}   -> Bitwise32("and", a, b)
    [] op \in {"OR", "ORI"}     -> Bitwise32("or", a, b)
    [] op \in {"XOR", "XORI"}   -> Bitwise32("xor", a, b)
    [] op \in {"SLL", "SLLI"}   -> Shl32(a, Shamt(b))
    [] op \in {"SRL", "SRLI"}   -> Srl32(a, Shamt(b))
    [] op \in {"SRA", "SRAI"}   -> Sra32(a, Shamt(b))
    [] op \in {"SLT", "SLTI"}   -> IF a < b THEN 1 ELSE 0
    [] op \in {"SLTU", "SLTIU"} -> IF ULT(a, b) THEN 1 ELSE 0
    [] op = "LUI"               -> Shl32(b, 12)
    [] op = "AUIPC"             -> Add32(a, Shl32(b, 12))

-----------------------------------------------------------------------------
(* Memory: a map from byte address to byte; unmapped bytes read 0 *)

read_byte_unsigned(mem, address) ==
  IF address \in DOMAIN mem THEN mem[address] ELSE 0

read_byte_signed(mem, address) ==
  LET b == read_byte_unsigned(mem, address) IN IF b >= 128 THEN b - 256 ELSE b

read_halfword_unsigned(mem, address) ==
  read_byte_unsigned(mem, address) + 256 * read_byte_unsigned(mem, Add32(address, 1))

read_halfword(mem, address) ==
  LET h == read_halfword_unsigned(mem, address) IN IF h >= 32768 THEN h - 65536 ELSE h

read(mem, address) ==
  read_byte_unsigned(mem, address)
  + 256 * read_byte_unsigned(mem, Add32(address, 1))
  + 65536 * read_byte_unsigned(mem, Add32(address, 2))
  + 16777216 * read_byte_signed(mem, Add32(address, 3))

write_byte(mem, address, data) ==
  [a \in DOMAIN mem \cup {address} |-> IF a = address THEN data ELSE mem[a]]

\* variant: the halfword is written high byte first
write_halfword_BigEndian(mem, address, data) ==
  write_byte(write_byte(mem, address, Bits(data, 8, 8)), Add32(address, 1), Bits(data, 0, 8))

write_halfword(mem, address, data) ==
  write_byte(write_byte(mem, address, Bits(data, 0, 8)), Add32(address, 1), Bits(data, 8, 8))

write(mem, address, data) ==
  LET m1 == write_byte(mem, address, Bits(data, 0, 8))
      m2 == write_byte(m1, Add32(address, 1), Bits(data, 8, 8))
      m3 == write_byte(m2, Add32(address, 2), Bits(data, 16, 8))
  IN  write_byte(m3, Add32(address, 3), Bits(data, 24, 7) + 128 * Bits(data, 31, 1))

load(mem, address, op) ==
  CASE op = "LB"  -> read_byte_signed(mem, address)
    [] op = "LH"  -> read_halfword(mem, address)
    [] op = "LW"  -> read(mem, address)
    [] op = "LBU" -> read_byte_unsigned(mem, address)
    [] op = "LHU" -> read_halfword_unsigned(mem, address)

store(mem, address, data, op) ==
  CASE op = "SB" -> write_byte(mem, address, Bits(data, 0, 8))
    [] op = "SH" -> write_halfword(mem, address, data)
    [] op = "SW" -> write(mem, address, data)

-----------------------------------------------------------------------------
(* Predictor: the 2-bit counter and the resolution of a latched instruction *)

\* variant: a taken branch moves a not-taken counter straight to STRONG_TAKEN
update_Jump(state, taken) ==
  IF taken THEN "STRONG_TAKEN"
  ELSE IF state = "STRONG_TAKEN" THEN "WEAK_TAKEN"
  ELSE IF state = "WEAK_TAKEN" THEN "WEAK_NOT_TAKEN"
  ELSE "STRONG_NOT_TAKEN"

update(state, taken) ==
  CASE state = "STRONG_TAKEN"     -> IF taken THEN state ELSE "WEAK_TAKEN"
    [] state = "WEAK_TAKEN"       -> IF taken THEN "STRONG_TAKEN" ELSE "WEAK_NOT_TAKEN"
    [] state = "WEAK_NOT_TAKEN"   -> IF taken THEN "WEAK_TAKEN" ELSE "STRONG_NOT_TAKEN"
    [] state = "STRONG_NOT_TAKEN" -> IF taken THEN "WEAK_NOT_TAKEN" ELSE state

predict(state) == state \in {"STRONG_TAKEN", "WEAK_TAKEN"}

is_unconditional_jump(branch_type) == branch_type \in {"JAL", "JALR"}

\* the comparison is_prediction_correct makes on the captured operands
BranchCondition(op, rs1, rs2) ==
  CASE op = "BEQ"  -> rs1 = rs2
    [] op = "BNE"  -> rs1 # rs2
    [] op = "BLT"  -> rs1 < rs2
    [] op = "BGE"  -> rs1 >= rs2
    [] op = "BLTU" -> ULT(rs1, rs2)
    [] op = "BGEU" -> ~ULT(rs1, rs2)

is_prediction_correct(instr, state) ==
  IF is_unconditional_jump(instr.branch_type) THEN FALSE
  ELSE BranchCondition(instr.branch_type, instr.rs1, instr.rs2) = predict(state)

\* variant: every jump resolved to the fall-through address
calculate_target_pc_FallThrough(instr) ==
  Add32(instr.pc, 4)

calculate_target_pc(instr) ==
  IF instr.branch_type = "JALR"
    THEN LET t == Add32(instr.rs1, instr.imm) IN t - (t % 2)
    ELSE Add32(instr.pc, instr.imm)

\* PredictorResult::is_mispredicted: for a branch, prediction # actual outcome;
\* for JAL / JALR, the fetch path (pc+imm for JAL, pc+4 for JALR) # resolved target
is_mispredicted(instr, state) ==
  CASE instr.branch_type = "JAL"  -> FALSE
    [] instr.branch_type = "JALR" -> calculate_target_pc(instr) # Add32(instr.pc, 4)
    [] OTHER                      -> ~is_prediction_correct(instr, state)

\* PredictorResult::correct_target: mispredicted and not taken -> pc + 4, else the target
correct_target(instr, state) ==
  LET actual_taken == is_unconditional_jump(instr.branch_type)
                      \/ BranchCondition(instr.branch_type, instr.rs1, instr.rs2)
  IN  IF is_mispredicted(instr, state) /\ ~actual_taken
        THEN Add32(instr.pc, 4)
        ELSE calculate_target_pc(instr)

-----------------------------------------------------------------------------
(* Records of the units.  An empty std::optional is None. *)

None == [valid |-> FALSE]

ReorderBufferEntry(instr, has_dest, dest_tag, id) ==
  [instr |-> instr, has_dest |-> has_dest, dest_tag |-> dest_tag, value |-> -1,
   ready |-> (~has_dest) /\ instr.type # "B",
   exception_flag |-> FALSE, id |-> id, pc |-> 0, instruction_pc |-> 0]

ReservationStationEntry(op, qj, qk, vj, vk, imm, dest_tag, pc) ==
  [op |-> op, vj |-> vj, vk |-> vk, qj |-> qj, qk |-> qk, imm |-> imm,
   dest_tag |-> dest_tag, pc |-> pc]

\* a queue slot that was never written (never visible before it is written)
NoRobEntry == ReorderBufferEntry(Invalid, FALSE, 0, NO_TAG)

NoRsEntry == ReservationStationEntry(Invalid, NO_TAG, NO_TAG, 0, 0, 0, NO_TAG, 0)

NoLsbEntry ==
  [valid |-> FALSE, op_type |-> "none", address |-> 0, data |-> 0, imm |-> 0,
   dest_tag |-> 0, rob_id |-> 0, can_execute |-> FALSE, cycles_remaining |-> 0,
   committed |-> FALSE, executing |-> FALSE]

LSBInstruction(op_type, address, data, imm, can_execute, dest_tag) ==
  [op_type |-> op_type, address |-> address, data |-> data, imm |-> imm,
   can_execute |-> can_execute, dest_tag |-> dest_tag, rob_id |-> dest_tag]

LSBEntry(inst) ==
  [valid |-> TRUE, op_type |-> inst.op_type, address |-> inst.address, data |-> inst.data,
   imm |-> inst.imm, dest_tag |-> inst.dest_tag, rob_id |-> inst.rob_id,
   can_execute |-> inst.can_execute, cycles_remaining |-> 0,
   committed |-> FALSE, executing |-> FALSE]

is_load(op_type) == op_type \in {"LB", "LH", "LW", "LBU", "LHU"}

is_store(op_type) == op_type \in {"SB", "SH", "SW"}

-----------------------------------------------------------------------------
(* ALU::tick, Predictor::tick *)

ALUTick(alu) ==
  IF alu.current_instruction.valid
    THEN [alu EXCEPT
            !.broadcast_result = alu.next_broadcast_result,
            !.next_broadcast_result =
               [valid |-> TRUE,
                result |-> execute(alu.current_instruction.a, alu.current_instruction.b,
                                   alu.current_instruction.op),
                dest_tag |-> alu.current_instruction.dest_tag],
            !.current_instruction = None]
    ELSE [alu EXCEPT
            !.broadcast_result = alu.next_broadcast_result,
            !.next_broadcast_result = None,
            !.busy = FALSE]

ALUSetInstruction(alu, a, b, op, dest_tag) ==
  [alu EXCEPT !.current_instruction =
                 [valid |-> TRUE, a |-> a, b |-> b, op |-> op, dest_tag |-> dest_tag],
              !.busy = TRUE]

PredictorTick(pred) ==
  IF pred.current_instruction.valid
    THEN LET ci == pred.current_instruction
         IN [pred EXCEPT
               !.broadcast_result = pred.next_broadcast_result,
               !.next_broadcast_result =
                  [valid |-> TRUE,
                   has_dest |-> ci.has_dest, dest_tag |-> ci.dest_tag,
                   prediction |-> is_unconditional_jump(ci.branch_type) \/ predict(pred.state),
                   pc |-> ci.pc,
                   target_pc |-> calculate_target_pc(ci),
                   rob_id |-> ci.rob_id,
                   is_mispredicted |-> is_mispredicted(ci, pred.state),
                   correct_target |-> correct_target(ci, pred.state)],
               !.current_instruction = None]
    ELSE [pred EXCEPT
            !.broadcast_result = pred.next_broadcast_result,
            !.next_broadcast_result = None,
            !.busy = FALSE]

PredictorSetInstruction(pred, pc, rs1, rs2, has_dest, dest_tag, imm, rob_id, branch_type) ==
  [pred EXCEPT !.current_instruction =
                  [valid |-> TRUE, pc |-> pc, rs1 |-> rs1, rs2 |-> rs2, has_dest |-> has_dest,
                   dest_tag |-> dest_tag, imm |-> imm, rob_id |-> rob_id,
                   branch_type |-> branch_type],
               !.busy = TRUE]

\* Predictor::flush: cancels the latched instruction and the pending results
PredictorFlush(pred) ==
  [pred EXCEPT !.current_instruction = None, !.broadcast_result = None,
               !.next_broadcast_result = None, !.busy = FALSE]

-----------------------------------------------------------------------------
(* ReorderBuffer and ReservationStation: reception of a broadcast *)

\* physical slot k is one of get(0) .. get(size-1)
InQueue(q, k) == ((k - q.frontIdx) % q.capacity) < q.count

\* ALU and load results: value and ready on the entry whose id is the tag
RobReceiveValue(rob, value, dest_tag) ==
  [rob EXCEPT !.arr = [k \in DOMAIN rob.arr |->
     IF InQueue(rob, k) /\ rob.arr[k].id = dest_tag
       THEN [rob.arr[k] EXCEPT !.value = value, !.ready = TRUE]
       ELSE rob.arr[k]]]

RobReceivePredictor(rob, result) ==
  [rob EXCEPT !.arr = [k \in DOMAIN rob.arr |->
     IF ~InQueue(rob, k) THEN rob.arr[k]
     ELSE IF result.has_dest /\ rob.arr[k].id = result.dest_tag
       THEN [rob.arr[k] EXCEPT !.value = result.pc, !.pc = result.correct_target,
                               !.ready = TRUE, !.exception_flag = result.is_mispredicted]
     ELSE IF rob.arr[k].id = result.rob_id
       THEN [rob.arr[k] EXCEPT !.ready = TRUE, !.exception_flag = result.is_mispredicted,
                               !.pc = result.correct_target]
     ELSE rob.arr[k]]]

RsReceiveBroadcast(rs, value, dest_tag) ==
  [rs EXCEPT !.arr = [k \in DOMAIN rs.arr |->
     IF ~InQueue(rs, k) THEN rs.arr[k]
     ELSE LET e == rs.arr[k]
              e1 == IF e.qj = dest_tag THEN [e EXCEPT !.vj = value, !.qj = NO_TAG] ELSE e
          IN  IF e1.qk = dest_tag THEN [e1 EXCEPT !.vk = value, !.qk = NO_TAG] ELSE e1]]

\* ReorderBuffer::get_value
get_value(rob, id) ==
  LET hit == {k \in DOMAIN rob.arr : InQueue(rob, k) /\ rob.arr[k].id = id}
  IN  IF hit = {} THEN None
      ELSE LET e == rob.arr[CHOOSE k \in hit :
                              \A j \in hit : ((k - rob.frontIdx) % rob.capacity)
                                             <= ((j - rob.frontIdx) % rob.capacity)]
           IN  IF e.ready THEN [valid |-> TRUE, value |-> e.value] ELSE None

\* ReorderBuffer::flush and ReservationStation::flush: dequeue until empty
QueueFlush(q) ==
  [q EXCEPT !.frontIdx = (q.frontIdx + q.count) % q.capacity, !.count = 0]

\* variant: a flush that releases no tag
TagsAfterRobFlush_Keep(rob, tag) ==
  tag

\* the tags ReorderBuffer::flush releases
TagsAfterRobFlush(rob, tag) ==
  [r \in DOMAIN tag |->
     IF r # 0 /\ \E k \in DOMAIN rob.arr :
                    /\ InQueue(rob, k) /\ rob.arr[k].has_dest
                    /\ rob.arr[k].dest_tag = r /\ tag[r] = rob.arr[k].id
       THEN NO_TAG ELSE tag[r]]

-----------------------------------------------------------------------------
(* LSB *)

find_entry_by_rob_id(lsb, rob_id) ==
  {k \in DOMAIN lsb.entries : lsb.entries[k].valid /\ lsb.entries[k].rob_id = rob_id}

\* variant: the valid entry with the largest rob_id
get_oldest_ready_entry_Youngest(lsb) ==
  LET v == {k \in DOMAIN lsb.entries : lsb.entries[k].valid}
  IN  CHOOSE k \in v : \A j \in v :
        \/ lsb.entries[k].rob_id > lsb.entries[j].rob_id
        \/ (lsb.entries[k].rob_id = lsb.entries[j].rob_id /\ k <= j)

\* index of the valid entry with the smallest rob_id (the first one on a tie)
get_oldest_ready_entry(lsb) ==
  LET v == {k \in DOMAIN lsb.entries : lsb.entries[k].valid}
  IN  CHOOSE k \in v : \A j \in v :
        \/ lsb.entries[k].rob_id < lsb.entries[j].rob_id
        \/ (lsb.entries[k].rob_id = lsb.entries[j].rob_id /\ k <= j)

\* variant: a push that never looks for an entry with the same rob_id
add_instruction_Allocate(lsb, inst) ==
  LET free == {k \in DOMAIN lsb.entries : ~lsb.entries[k].valid}
  IN  IF lsb.entry_count >= LSB_SIZE
        THEN [lsb |-> lsb, threw |-> TRUE]
      ELSE IF free = {} THEN [lsb |-> lsb, threw |-> FALSE]
      ELSE LET k == CHOOSE x \in free : \A y \in free : x <= y
           IN [lsb |-> [lsb EXCEPT !.entries[k] = LSBEntry(inst),
                                   !.entry_count = lsb.entry_count + 1,
                                   !.busy = TRUE],
               threw |-> FALSE]

\* add_instruction: [lsb, threw]
add_instruction(lsb, inst) ==
  LET ex == find_entry_by_rob_id(lsb, inst.rob_id)
      free == {k \in DOMAIN lsb.entries : ~lsb.entries[k].valid}
  IN  IF ex # {}
        THEN LET k == CHOOSE x \in ex : \A y \in ex : x <= y
             IN [lsb |-> [lsb EXCEPT !.entries[k] =
                            [@ EXCEPT !.can_execute = inst.can_execute,
                                      !.address = inst.address, !.data = inst.data,
                                      !.imm = inst.imm, !.dest_tag = inst.dest_tag]],
                 threw |-> FALSE]
      ELSE IF lsb.entry_count >= LSB_SIZE
        THEN [lsb |-> lsb, threw |-> TRUE]
      ELSE IF free = {} THEN [lsb |-> lsb, threw |-> FALSE]
      ELSE LET k == CHOOSE x \in free : \A y \in free : x <= y
           IN [lsb |-> [lsb EXCEPT !.entries[k] = LSBEntry(inst),
                                   !.entry_count = lsb.entry_count + 1,
                                   !.busy = TRUE],
               threw |-> FALSE]

commit_memory(lsb, rob_id) ==
  [lsb EXCEPT !.entries = [k \in DOMAIN lsb.entries |->
     IF lsb.entries[k].valid /\ lsb.entries[k].rob_id <= rob_id
       THEN [lsb.entries[k] EXCEPT !.committed = TRUE] ELSE lsb.entries[k]]]

\* variant: a flush that drops the committed entries as well
LSBFlush_DropAll(lsb) ==
  [lsb EXCEPT !.entries = [k \in DOMAIN lsb.entries |-> [lsb.entries[k] EXCEPT !.valid = FALSE]],
              !.entry_count = 0,
              !.broadcast_result = None, !.next_broadcast_result = None, !.busy = FALSE]

\* variant: a flush that keeps every entry
LSBFlush_KeepAll(lsb) ==
  lsb

LSBFlush(lsb) ==
  LET drop == {k \in DOMAIN lsb.entries : lsb.entries[k].valid /\ ~lsb.entries[k].committed}
      n == lsb.entry_count - Cardinality(drop)
      l1 == [lsb EXCEPT !.entries = [k \in DOMAIN lsb.entries |->
                          IF k \in drop THEN [lsb.entries[k] EXCEPT !.valid = FALSE]
                          ELSE lsb.entries[k]],
                        !.entry_count = n]
  IN  IF n = 0
        THEN [l1 EXCEPT !.broadcast_result = None, !.next_broadcast_result = None,
                        !.busy = FALSE]
        ELSE l1

\* LSB::tick: [lsb, memory, access]; access is the memory access made, if any
LSBTick(lsb, memory) ==
  LET l0 == [lsb EXCEPT !.broadcast_result = lsb.next_broadcast_result,
                        !.next_broadcast_result = None]
  IN  IF lsb.entry_count = 0
        THEN [lsb |-> [l0 EXCEPT !.busy = FALSE], memory |-> memory, access |-> None]
      ELSE
        LET k == get_oldest_ready_entry(l0)
            e == l0.entries[k]
            effective_address == Add32(e.address, e.imm)
        IN  IF ~e.can_execute /\ ~e.executing
              THEN [lsb |-> [l0 EXCEPT !.busy = l0.entry_count > 0],
                    memory |-> memory, access |-> None]
            ELSE
              LET can == (is_load(e.op_type) \/ (is_store(e.op_type) /\ e.committed))
                         /\ e.can_execute
                  e1 == IF ~e.executing /\ can
                          THEN [e EXCEPT !.executing = TRUE, !.cycles_remaining = LATENCY]
                          ELSE e
                  e2 == IF e1.executing
                          THEN [e1 EXCEPT !.cycles_remaining = e1.cycles_remaining - 1]
                          ELSE e1
                  done == e2.executing /\ e2.cycles_remaining = 0
              IN  IF ~done
                    THEN [lsb |-> [l0 EXCEPT !.entries[k] = e2, !.busy = l0.entry_count > 0],
                          memory |-> memory, access |-> None]
                  ELSE
                    LET ld == is_load(e.op_type)
                        data == IF ld THEN load(memory, effective_address, e.op_type) ELSE 0
                        result == [valid |-> TRUE, rob_id |-> e.rob_id, op_type |-> e.op_type,
                                   data |-> data, dest_tag |-> IF ld THEN e.dest_tag ELSE 0]
                    IN [lsb |-> [l0 EXCEPT !.entries[k] = [e2 EXCEPT !.valid = FALSE],
                                           !.entry_count = l0.entry_count - 1,
                                           !.next_broadcast_result = result,
                                           !.busy = l0.entry_count - 1 > 0],
                        memory |-> IF ld THEN memory
                                   ELSE store(memory, effective_address, e.data, e.op_type),
                        access |-> [valid |-> TRUE, rob_id |-> e.rob_id, op_type |-> e.op_type,
                                    address |-> effective_address,
                                    data |-> IF ld THEN data ELSE e.data,
                                    committed |-> e.committed]]

-----------------------------------------------------------------------------
(* CPU: fetch, issue, dispatch, commit on a machine record m. *)

IsLoad(instr) == instr.type = "I" /\ is_load(instr.op)

IsJalr(instr) == instr.type = "I" /\ instr.op = "JALR"

IsArith(instr) == instr.type = "I" /\ ~is_load(instr.op) /\ instr.op # "JALR"

has_rd(instr) == instr.type \in {"R", "I", "U", "J"}

has_rs1(instr) == instr.type \in {"R", "I", "S", "B"}

has_rs2(instr) == instr.type \in {"R", "S", "B"}

\* BinaryLoader::fetchInstruction: [threw, word]
fetchInstruction(image, address) ==
  IF \E k \in 0 .. 3 : Add32(address, k) \notin DOMAIN image
    THEN [threw |-> TRUE, word |-> 0]
    ELSE [threw |-> FALSE,
          word |-> image[address] + 256 * image[Add32(address, 1)]
                   + 65536 * image[Add32(address, 2)]
                   + 16777216 * (IF image[Add32(address, 3)] >= 128
                                   THEN image[Add32(address, 3)] - 256
                                   ELSE image[Add32(address, 3)])]

\* RegisterFile::receive_rob, RegisterFile::mark_available, RegisterFile::write
receive_rob(tag, rd, id) == IF rd = 0 THEN tag ELSE [tag EXCEPT ![rd] = id]

mark_available(tag, rd) == IF rd = 0 THEN tag ELSE [tag EXCEPT ![rd] = NO_TAG]

\* variant: a write that is lost
reg_write_Drop(reg, rd, value) == reg

\* variant: a write that does not test for register zero
reg_write_Any(reg, rd, value) == [reg EXCEPT ![rd] = value]

reg_write(reg, rd, value) == IF rd = 0 THEN reg ELSE [reg EXCEPT ![rd] = value]

get_rob(tag, rd) == IF rd = 0 THEN NO_TAG ELSE tag[rd]

\* operand capture of CPU::issue: [v, q]
Operand(m, r) ==
  LET rob_tag == get_rob(m.tag, r)
  IN  IF rob_tag = NO_TAG THEN [v |-> m.reg[r], q |-> NO_TAG]
      ELSE LET rob_value == get_value(m.rob, rob_tag)
           IN  IF rob_value.valid THEN [v |-> rob_value.value, q |-> NO_TAG]
               ELSE [v |-> 0, q |-> rob_tag]

\* variant: the id counter of the ROB wraps around after four entries
NextId_Wrap(cur_id) == (cur_id + 1) % 4

\* ReorderBuffer::add_entry: cur_id++
NextId(cur_id) == cur_id + 1

\* CPU::issue, entered with pc already advanced by fetch
issue(m, instr) ==
  IF instr.type = "invalid" THEN [m EXCEPT !.exc = "fetch"]
  ELSE IF isFull(m.rob) THEN [m EXCEPT !.pc = Sub32(m.pc, 4)]
  ELSE
    LET id == m.cur_id
        ipc == Sub32(m.pc, 4)
        ent == [ReorderBufferEntry(instr, has_rd(instr), instr.rd, id)
                  EXCEPT !.instruction_pc = ipc]
        j == IF has_rs1(instr) THEN Operand(m, instr.rs1) ELSE [v |-> 0, q |-> NO_TAG]
        k == IF has_rs2(instr) THEN Operand(m, instr.rs2)
             ELSE [v |-> IF instr.type = "R" THEN 0 ELSE instr.imm, q |-> NO_TAG]
        rse == ReservationStationEntry(instr, j.q, k.q, j.v, k.v, instr.imm, id, ipc)
    IN [m EXCEPT
          !.rob = enqueue(m.rob, ent),
          !.cur_id = NextId(id),
          !.rs = enqueue(m.rs, rse),
          !.pc = IF instr.type \in {"B", "J"} THEN Sub32(Add32(m.pc, instr.imm), 4) ELSE m.pc,
          !.tag = IF has_rd(instr) THEN receive_rob(m.tag, instr.rd, id) ELSE m.tag,
          !.issue_log = Append(m.issue_log,
                               [id |-> id, instr |-> instr, pc |-> ipc,
                                cycle |-> m.cycle_count])]

\* one RS entry in CPU::dispatch: [m, dispatched]
DispatchEntry(m, ent) ==
  LET lsbi(can) == LSBInstruction(ent.op.op, ent.vj, IF ent.op.type = "S" THEN ent.vk ELSE 0,
                                  ent.imm, can, ent.dest_tag)
      toLSB(can) == LET r == add_instruction(m.lsb, lsbi(can))
                    IN  IF r.threw THEN [m EXCEPT !.exc = "runtime_error"]
                        ELSE [m EXCEPT !.lsb = r.lsb]
      logged(n, unit) == [n EXCEPT !.ops = Append(n.ops,
                            [id |-> ent.dest_tag, unit |-> unit, instr |-> ent.op,
                             vj |-> ent.vj, vk |-> ent.vk, qj |-> ent.qj, qk |-> ent.qk,
                             cycle |-> m.cycle_count])]
  IN
  IF ent.qj # NO_TAG \/ ent.qk # NO_TAG
    THEN [m |-> IF ent.op.type = "S" \/ IsLoad(ent.op) THEN toLSB(FALSE) ELSE m,
          dispatched |-> FALSE]
  ELSE IF ent.op.type \in {"R", "U"} \/ IsArith(ent.op)
    THEN IF ~m.alu.busy
           THEN [m |-> logged([m EXCEPT !.alu = ALUSetInstruction(m.alu, ent.vj, ent.vk,
                                                                  ent.op.op, ent.dest_tag)],
                              "alu"),
                 dispatched |-> TRUE]
           ELSE [m |-> m, dispatched |-> FALSE]
  ELSE IF ent.op.type = "S" \/ IsLoad(ent.op)
    THEN [m |-> logged(toLSB(TRUE), "lsb"), dispatched |-> TRUE]
  ELSE IF IsJalr(ent.op) \/ ent.op.type \in {"B", "J"}
    THEN IF ~m.pred.busy
           THEN [m |-> logged([m EXCEPT !.pred =
                     PredictorSetInstruction(m.pred, ent.pc,
                        IF ent.op.type = "J" THEN 0 ELSE ent.vj,
                        IF ent.op.type = "B" THEN ent.vk ELSE 0,
                        ent.op.type # "B", ent.dest_tag, ent.imm, ent.dest_tag,
                        ent.op.op)], "pred"),
                 dispatched |-> TRUE]
           ELSE [m |-> m, dispatched |-> FALSE]
  ELSE [m |-> m, dispatched |-> FALSE]

\* CPU::dispatch: the scan of rs.rs from index i
RECURSIVE dispatch(_, _)
dispatch(m, i) ==
  IF m.exc # "none" \/ i >= m.rs.count THEN m
  ELSE LET r == DispatchEntry(m, get(m.rs, i))
       IN  IF r.m.exc # "none" THEN r.m
           ELSE IF r.dispatched
             THEN dispatch([r.m EXCEPT !.rs = remove(r.m.rs, i)], i)
             ELSE dispatch(r.m, i + 1)

\* variant: every addi into x10 from x0 ends the program
is_termination_AnyImmediate(instr) ==
  instr.type = "I" /\ instr.op = "ADDI" /\ instr.rd = 10 /\ instr.rs1 = 0

is_termination(instr) ==
  instr.type = "I" /\ instr.op = "ADDI" /\ instr.rd = 10 /\ instr.rs1 = 0 /\ instr.imm = 255

\* ReorderBuffer::commit followed by the caller's handling of its result (CPU::commit)
commit(m) ==
  IF isEmpty(m.rob) THEN m
  ELSE
    LET ent == front(m.rob)
        m1 == [m EXCEPT !.lsb = commit_memory(m.lsb, ent.id)]
        rec == [id |-> ent.id, pc |-> ent.instruction_pc, instr |-> ent.instr,
                value |-> ent.value, before |-> m.reg, cycle |-> m.cycle_count,
                mispredicted |-> ent.exception_flag, corrected_pc |-> ent.pc,
                terminated |-> FALSE]
    IN
    IF ~ent.ready THEN m1
    ELSE IF is_termination(ent.instr)
      THEN [m1 EXCEPT
              !.tag = IF ent.has_dest /\ get_rob(m.tag, ent.dest_tag) = ent.id
                        THEN mark_available(m.tag, ent.dest_tag) ELSE m.tag,
              !.exc = "terminate",
              !.exit_raw = m.reg[10],
              !.commit_log = Append(m.commit_log, [rec EXCEPT !.terminated = TRUE])]
    ELSE
      LET m2 == IF ent.exception_flag
                  THEN [m1 EXCEPT
                          !.tag = TagsAfterRobFlush(m.rob, m.tag),
                          !.rob = QueueFlush(m.rob),
                          !.rs = QueueFlush(m.rs),
                          !.lsb = LSBFlush(m1.lsb),
                          !.pred = PredictorFlush(m.pred),
                          !.pc = ent.pc,
                          !.stall_fetch = TRUE,
                          !.squash_log = m.squash_log \cup
                             {[id |-> get(m.rob, x).id, cycle |-> m.cycle_count] :
                                x \in 1 .. m.rob.count - 1}]
                  ELSE m1
          t2 == IF ent.has_dest /\ get_rob(m2.tag, ent.dest_tag) = ent.id
                  THEN mark_available(m2.tag, ent.dest_tag) ELSE m2.tag
      IN [m2 EXCEPT
            !.reg = IF ent.has_dest THEN reg_write(m.reg, ent.dest_tag, ent.value) ELSE m.reg,
            !.tag = t2,
            !.rob = dequeue(m2.rob),
            !.commit_log = Append(m.commit_log, rec)]

\* the fetch and issue stage of CPU::Tick, with its catch block
FetchIssue(m) ==
  IF m.stall_fetch \/ isFull(m.rob) THEN m
  ELSE LET f == fetchInstruction(m.image, m.pc)
           m1 == [m EXCEPT !.fetched_pc = m.pc]
       IN  IF f.threw THEN m1
           ELSE LET m2 == issue([m1 EXCEPT !.pc = Add32(m.pc, 4)], decode(f.word))
                IN  IF m2.exc = "fetch"
                      THEN [m1 EXCEPT !.pc = m1.fetched_pc]
                      ELSE m2

-----------------------------------------------------------------------------
(* State.  The logs are history variables: what was issued, dispatched,
   accessed in memory, squashed and committed, and in which cycle. *)

VARIABLES pc, fetched_pc, stall_fetch, registers, rob_id, rob, cur_id, rs, alu, pred,
          mem, memory_data, loader, cycle_count, status, exit_code,
          issue_log, ops, mem_log, squash_log, commit_log, result_log, update_log, stdin

vars == <<pc, fetched_pc, stall_fetch, registers, rob_id, rob, cur_id, rs, alu, pred,
          mem, memory_data, loader, cycle_count, status, exit_code,
          issue_log, ops, mem_log, squash_log, commit_log, result_log, update_log, stdin>>

MaxCycles == 20
ProgLen == 4
PadLen == 3
CYCLE_LIMIT == 2000000000

\* instruction words a program image is made of
Menu ==
  { -1047277,    \* addi x10, x0, -1
    267388179,   \* addi x10, x0, 255
    1123,        \* beq  x0, x0, +8
    5219,        \* bne  x0, x0, +8
    77602851,    \* sw   x10, 64(x0)
    67118339,    \* lw   x10, 64(x0)
    8388847,     \* jal  x1, +8
    13959399 }   \* jalr x1, 13(x10)

\* addi x0, x0, 0
NOP == 19

\* a program: ProgLen words of the menu, followed by PadLen no-ops
Programs == {body \o [i \in 1 .. PadLen |-> NOP] : body \in [1 .. ProgLen -> Menu]}

\* the byte image the loader holds for a program placed at address 0
LoaderImage(prog) ==
  [a \in 0 .. 4 * Len(prog) - 1 |-> Bits(prog[(a \div 4) + 1], 8 * (a % 4), 8)]

\* static_cast<int>(double) of the unsigned register value
ExitCodes(raw) == IF raw >= 0 THEN {raw} ELSE {raw, MinInt, MaxInt}

\* the states of the predictor's 2-bit counter
CounterStates == {"STRONG_TAKEN", "WEAK_TAKEN", "WEAK_NOT_TAKEN", "STRONG_NOT_TAKEN"}

\* the machine after construction, on one of the images, with the counter in one of the states
InitMachine(progs, states) ==
  /\ pc = 0
  /\ fetched_pc = 0
  /\ stall_fetch = FALSE
  /\ registers = [r \in 0 .. 31 |-> 0]
  /\ rob_id = [r \in 0 .. 31 |-> NO_TAG]
  /\ rob = NewQueue(ROB_SIZE, NoRobEntry)
  /\ cur_id = 0
  /\ rs = NewQueue(RS_SIZE, NoRsEntry)
  /\ alu = [current_instruction |-> None, broadcast_result |-> None,
            next_broadcast_result |-> None, busy |-> FALSE]
  /\ \E st \in states :
       pred = [current_instruction |-> None, broadcast_result |-> None,
               next_broadcast_result |-> None, busy |-> FALSE, state |-> st]
  /\ mem = [entries |-> [k \in 0 .. LSB_SIZE - 1 |-> NoLsbEntry], broadcast_result |-> None,
            next_broadcast_result |-> None, busy |-> FALSE, entry_count |-> 0]
  /\ \E prog \in progs : loader = LoaderImage(prog)
  /\ memory_data = loader
  /\ cycle_count = 0
  /\ status = "running"
  /\ exit_code = 0
  /\ issue_log = <<>>
  /\ ops = <<>>
  /\ mem_log = <<>>
  /\ squash_log = {}
  /\ commit_log = <<>>
  /\ result_log = {}
  /\ update_log = <<>>

\* an input that has been read to its end
NoInput == [lines |-> <<>>, pos |-> 1, current_address |-> 0, done |-> TRUE]

\* the state after construction and load_from_stdin
InitFrom(progs, states) == InitMachine(progs, states) /\ stdin = NoInput

\* Predictor::Predictor leaves the counter in WEAK_NOT_TAKEN
InitWith(progs) == InitFrom(progs, {"WEAK_NOT_TAKEN"})

Init == InitWith(Programs)

Machine ==
  [pc |-> pc, fetched_pc |-> fetched_pc, stall_fetch |-> stall_fetch, reg |-> registers,
   tag |-> rob_id, rob |-> rob, cur_id |-> cur_id, rs |-> rs, alu |-> alu, pred |-> pred,
   lsb |-> mem, memory |-> memory_data, image |-> loader, cycle_count |-> cycle_count,
   exc |-> "none", exit_raw |-> 0,
   issue_log |-> issue_log, ops |-> ops, mem_log |-> mem_log, squash_log |-> squash_log,
   commit_log |-> commit_log, result_log |-> result_log]

\* variant: the result of a store is delivered like the result of a load
BroadcastMemory_Stores(m) ==
  LET mr == m.lsb.broadcast_result
  IN  IF mr.valid
        THEN [m EXCEPT !.rob = RobReceiveValue(m.rob, mr.data, mr.dest_tag),
                       !.rs = RsReceiveBroadcast(m.rs, mr.data, mr.dest_tag),
                       !.result_log = m.result_log \cup
                                        {[id |-> mr.dest_tag, value |-> mr.data,
                                          unit |-> "lsb", cycle |-> m.cycle_count]}]
        ELSE m

\* a load result leaving the LSB goes to the ROB and the RS
BroadcastMemory(m) ==
  LET mr == m.lsb.broadcast_result
  IN  IF mr.valid /\ is_load(mr.op_type)
        THEN [m EXCEPT !.rob = RobReceiveValue(m.rob, mr.data, mr.dest_tag),
                       !.rs = RsReceiveBroadcast(m.rs, mr.data, mr.dest_tag),
                       !.result_log = m.result_log \cup
                                        {[id |-> mr.dest_tag, value |-> mr.data,
                                          unit |-> "lsb", cycle |-> m.cycle_count]}]
        ELSE m

\* an ALU result goes to the ROB and the RS
BroadcastALU(m) ==
  LET ar == m.alu.broadcast_result
  IN  IF ar.valid
        THEN [m EXCEPT !.rob = RobReceiveValue(m.rob, ar.result, ar.dest_tag),
                       !.rs = RsReceiveBroadcast(m.rs, ar.result, ar.dest_tag),
                       !.result_log = m.result_log \cup
                                        {[id |-> ar.dest_tag, value |-> ar.result,
                                          unit |-> "alu", cycle |-> m.cycle_count]}]
        ELSE m

\* mem.tick(), with the memory access it makes recorded
MemTick(m) ==
  LET lt == LSBTick(m.lsb, m.memory)
  IN  [m EXCEPT !.lsb = lt.lsb, !.memory = lt.memory,
                !.mem_log = IF lt.access.valid
                              THEN Append(m.mem_log,
                                     [rob_id |-> lt.access.rob_id,
                                      op_type |-> lt.access.op_type,
                                      address |-> lt.access.address,
                                      data |-> lt.access.data,
                                      cycle |-> m.cycle_count])
                              ELSE m.mem_log]

\* a predictor result goes to the ROB and, for a jump with rd, to the RS
BroadcastPredictor(m) ==
  LET pr == m.pred.broadcast_result
  IN  IF pr.valid
        THEN [m EXCEPT !.rob = RobReceivePredictor(m.rob, pr),
                       !.rs = IF pr.has_dest
                                THEN RsReceiveBroadcast(m.rs, pr.pc, pr.dest_tag)
                                ELSE m.rs,
                       !.result_log = m.result_log \cup
                                        {[id |-> pr.rob_id, value |-> pr.pc,
                                          unit |-> "pred", cycle |-> m.cycle_count]}]
        ELSE m

\* the broadcasts and unit ticks at the head of CPU::Tick
Broadcasts(m) ==
  BroadcastPredictor(
    MemTick(
      BroadcastALU(
        [BroadcastMemory([m EXCEPT !.alu = ALUTick(m.alu)])
           EXCEPT !.pred = PredictorTick(m.pred)])))

\* commit(), skipped when dispatch has thrown
\* variant: the commit stage retires up to two instructions in a tick
CommitStage_Twice(m) ==
  IF m.exc # "none" THEN m
  ELSE IF commit(m).exc # "none" THEN commit(m) ELSE commit(commit(m))

CommitStage(m) == IF m.exc # "none" THEN m ELSE commit(m)

\* fetch and issue, then stall_fetch = false
\* variant: the fetch stage ignores stall_fetch
FetchStage_NoStall(m) ==
  IF m.exc # "none" THEN m
  ELSE [FetchIssue([m EXCEPT !.stall_fetch = FALSE]) EXCEPT !.stall_fetch = FALSE]

FetchStage(m) ==
  IF m.exc # "none" THEN m ELSE [FetchIssue(m) EXCEPT !.stall_fetch = FALSE]

\* CPU::Tick, entered from CPU::run with the cycle counter already advanced
TickStep(m) ==
  FetchStage(CommitStage(dispatch(Broadcasts([m EXCEPT !.cycle_count = m.cycle_count + 1]), 0)))

\* one iteration of the loop of CPU::run
TickUpTo(limit) ==
  /\ status = "running"
  /\ cycle_count < limit
  /\ \E n \in {TickStep(Machine)} :
         /\ pc' = n.pc
         /\ fetched_pc' = n.fetched_pc
         /\ stall_fetch' = n.stall_fetch
         /\ registers' = n.reg
         /\ rob_id' = n.tag
         /\ rob' = n.rob
         /\ cur_id' = n.cur_id
         /\ rs' = n.rs
         /\ alu' = n.alu
         /\ pred' = n.pred
         /\ mem' = n.lsb
         /\ memory_data' = n.memory
         /\ loader' = loader
         /\ cycle_count' = n.cycle_count
         /\ issue_log' = n.issue_log
         /\ ops' = n.ops
         /\ mem_log' = n.mem_log
         /\ squash_log' = n.squash_log
         /\ commit_log' = n.commit_log
         /\ result_log' = n.result_log
         /\ update_log' = update_log
         /\ stdin' = stdin
         /\ status' = CASE n.exc = "terminate" -> "terminated"
                        [] n.exc = "runtime_error" -> "aborted"
                        [] n.exc = "none" /\ n.cycle_count > CYCLE_LIMIT -> "limit"
                        [] OTHER -> "running"
         /\ exit_code' \in CASE n.exc = "terminate" -> ExitCodes(n.exit_raw)
                             [] n.exc = "none" /\ n.cycle_count > CYCLE_LIMIT -> {n.reg[10]}
                             [] OTHER -> {exit_code}

Tick == TickUpTo(MaxCycles)

Next == Tick

Spec == Init /\ [][Next]_vars

(* Long runs of stores: images made of a run of addi x10,x0,-1, a run of
   sw x10,64(x0), one more addi and a long run of stores. *)

MaxCyclesLong == 60
StoreTail == 40
AluRun == 9
StoreRun == 15

Rep(n, w) == [i \in 1 .. n |-> w]

StorePrograms ==
  {Rep(n1, -1047277) \o Rep(m1, 77602851) \o Rep(1, -1047277) \o Rep(StoreTail, 77602851) :
     n1 \in AluRun - 1 .. AluRun + 1, m1 \in StoreRun - 1 .. StoreRun + 1}

InitStores == InitWith(StorePrograms)

LongTick == TickUpTo(MaxCyclesLong)

NextStores == LongTick

SpecStores == InitStores /\ [][NextStores]_vars

(* Programs that name x0 as destination and as source. *)

ZeroMenu ==
  { -1048557,    \* addi x0, x0, -1
    8388719,     \* jal  x0, +8
    67117059,    \* lw   x0, 64(x0)
    -1047277,    \* addi x10, x0, -1
    77602851 }   \* sw   x10, 64(x0)

ZeroPrograms == {body \o [i \in 1 .. PadLen |-> NOP] : body \in [1 .. ProgLen -> ZeroMenu]}

InitZero == InitWith(ZeroPrograms)

TickZero == TickUpTo(MaxCycles)

NextZero == TickZero

SpecZero == InitZero /\ [][NextZero]_vars

-----------------------------------------------------------------------------
(* Properties *)

Committed(i) == commit_log[i]

\* the instruction with this id was squashed by a recovery before cycle c
SquashedBefore(id, c) == \E q \in squash_log : q.id = id /\ q.cycle < c

\* C1: after a conditional branch commits, the next instruction to commit is the
\* one at pc+imm when the comparison on the operands the branch carried is true,
\* and the one at pc+4 when it is false.
C1_BranchNextCommit ==
  \A i \in 1 .. Len(commit_log) - 1 :
    Committed(i).instr.type = "B" =>
      \A k \in DOMAIN ops :
        (ops[k].id = Committed(i).id /\ ops[k].unit = "pred") =>
          Committed(i + 1).pc =
            IF BranchCondition(Committed(i).instr.op, ops[k].vj, ops[k].vk)
              THEN Add32(Committed(i).pc, Committed(i).instr.imm)
              ELSE Add32(Committed(i).pc, 4)

\* C2: every store that has written data memory belongs to a ROB entry that
\* Commit retired in an earlier tick.
C2_StoreWritesAfterCommit ==
  \A k \in DOMAIN mem_log :
    is_store(mem_log[k].op_type) =>
      \E i \in DOMAIN commit_log :
        Committed(i).id = mem_log[k].rob_id /\ Committed(i).cycle < mem_log[k].cycle

\* the issued instructions older than dispatch record d that write register r
\* and were not squashed before d was dispatched
OlderWriters(d, r) ==
  {i \in DOMAIN issue_log :
     /\ issue_log[i].id < d.id
     /\ has_rd(issue_log[i].instr) /\ issue_log[i].instr.rd = r /\ r # 0
     /\ ~SquashedBefore(issue_log[i].id, d.cycle)}

\* v is the result of the youngest of them, or the register's committed value
\* (0, as nothing older writes it) when there is none
OperandAgrees(d, r, v) ==
  LET W == OlderWriters(d, r)
  IN  IF W = {} THEN v = 0
      ELSE LET y == CHOOSE i \in W : \A j \in W : issue_log[j].id <= issue_log[i].id
           IN  \E res \in result_log : res.id = issue_log[y].id /\ res.value = v

\* C3: every source-register operand an instruction carries when it is dispatched
\* to the ALU, the predictor or (can_execute) the LSB is the result of the youngest
\* older writer of that register that was not squashed, or the committed value.
C3_OperandsAtDispatch ==
  \A k \in DOMAIN ops :
    /\ has_rs1(ops[k].instr) => OperandAgrees(ops[k], ops[k].instr.rs1, ops[k].vj)
    /\ has_rs2(ops[k].instr) => OperandAgrees(ops[k], ops[k].instr.rs2, ops[k].vk)

\* the register file right after the i-th commit
RegsAfter(i) == IF i < Len(commit_log) THEN Committed(i + 1).before ELSE registers

\* C4: the value run() returns on termination is reg[10] & 0xFF, so it lies in 0..255.
C4_ExitCodeMasked ==
  status = "terminated" =>
    exit_code = And32(registers[10], 255) /\ exit_code \in 0 .. 255

\* C5: when the sentinel commits, the exit value is the value x10 held just before
\* that commit (written by the youngest older committed writer of x10, or 0), and
\* x10 is not overwritten.
C5_ExitValueIsA0 ==
  status = "terminated" =>
    LET n == Len(commit_log)
        W == {i \in 1 .. n - 1 : has_rd(Committed(i).instr) /\ Committed(i).instr.rd = 10}
    IN  /\ Committed(n).terminated
        /\ exit_code = Committed(n).before[10]
        /\ registers[10] = Committed(n).before[10]
        /\ Committed(n).before[10] =
             IF W = {} THEN 0
             ELSE Committed(CHOOSE i \in W : \A j \in W : j <= i).value

\* C6: at the end of every tick each register tag is NO_TAG or names exactly one
\* entry of the ROB, and that entry writes the register.
C6_TagsNameRobEntries ==
  \A r \in 0 .. 31 :
    \/ rob_id[r] = NO_TAG
    \/ Cardinality({k \in DOMAIN rob.arr :
                      /\ InQueue(rob, k) /\ rob.arr[k].id = rob_id[r]
                      /\ rob.arr[k].has_dest /\ rob.arr[k].dest_tag = r}) = 1

\* C7: a load reads memory only after every older store that was not squashed has
\* written, and the LSB accesses memory in strictly increasing rob_id order.
C7_LoadsAfterOlderStores ==
  /\ \A k \in DOMAIN mem_log :
       is_load(mem_log[k].op_type) =>
         \A i \in DOMAIN issue_log :
           ( /\ issue_log[i].instr.type = "S"
             /\ issue_log[i].id < mem_log[k].rob_id
             /\ ~SquashedBefore(issue_log[i].id, mem_log[k].cycle) )
           => \E j \in 1 .. k - 1 : mem_log[j].rob_id = issue_log[i].id
  /\ \A j, k \in DOMAIN mem_log : j < k => mem_log[j].rob_id < mem_log[k].rob_id

\* C8: at the end of a tick in which a mispredicted head was committed the ROB and
\* the RS are empty, the LSB holds no non-committed entry, every tag is NO_TAG and
\* PC is the corrected_pc of that entry.
C8_RecoveryState ==
  LET n == Len(commit_log)
  IN  (n > 0 /\ Committed(n).cycle = cycle_count /\ Committed(n).mispredicted) =>
        /\ isEmpty(rob)
        /\ isEmpty(rs)
        /\ \A k \in DOMAIN mem.entries : mem.entries[k].valid => mem.entries[k].committed
        /\ \A r \in 0 .. 31 : rob_id[r] = NO_TAG
        /\ pc = Committed(n).corrected_pc

\* C9: after JAL commits the next commit is the instruction at pc+imm; after JALR
\* it is the one at (rs1_val + imm) & ~1, rs1_val the architectural value of rs1.
C9_JumpNextCommit ==
  \A i \in 1 .. Len(commit_log) - 1 :
    /\ Committed(i).instr.type = "J" =>
         Committed(i + 1).pc = Add32(Committed(i).pc, Committed(i).instr.imm)
    /\ IsJalr(Committed(i).instr) =>
         Committed(i + 1).pc =
           LET t == Add32(Committed(i).before[Committed(i).instr.rs1], Committed(i).instr.imm)
           IN  t - (t % 2)

\* C10: when a JAL or JALR with rd # x0 commits, reg[rd] receives pc_fetched + 4.
C10_LinkValue ==
  \A i \in DOMAIN commit_log :
    ( /\ Committed(i).instr.type = "J" \/ IsJalr(Committed(i).instr)
      /\ Committed(i).instr.rd # 0 )
    => RegsAfter(i)[Committed(i).instr.rd] = Add32(Committed(i).pc, 4)

\* a tag is live again after a recovery has squashed younger instructions
C6_Witness ==
  /\ squash_log # {}
  /\ Len(commit_log) > 1
  /\ \E r \in 1 .. 31 : rob_id[r] # NO_TAG

\* a mispredicted head was committed in this tick and squashed younger instructions
C8_Witness ==
  /\ Len(commit_log) > 0
  /\ Committed(Len(commit_log)).cycle = cycle_count
  /\ Committed(Len(commit_log)).mispredicted
  /\ \E q \in squash_log : q.cycle = cycle_count

\* a JALR with an odd rs1_val + imm was recovered at Commit and followed by a commit
C9_Witness ==
  \E i \in 1 .. Len(commit_log) - 1 :
    /\ IsJalr(Committed(i).instr) /\ Committed(i).mispredicted
    /\ Add32(Committed(i).before[Committed(i).instr.rs1], Committed(i).instr.imm) % 2 = 1

\* C11: a full LSB is not an error: when a load or store has to be placed in the
\* LSB while all slots are valid, the simulator does not abort.
C11_FullLsbNoAbort ==
  status # "aborted"

\* the word of the image at word index k
ImageWord(k) == fetchInstruction(loader, 4 * k).word

ImageWords == 0 .. (Cardinality(DOMAIN loader) \div 4) - 1

\* the image is straight-line code up to a sentinel: in-order execution reaches it
ReachesSentinel ==
  \E k \in ImageWords :
    /\ is_termination(decode(ImageWord(k)))
    /\ \A j \in 0 .. k - 1 :
         LET i == decode(ImageWord(j))
         IN  i.type \notin {"invalid", "B", "J"} /\ ~IsJalr(i)

\* one more tick changes nothing but the cycle counter: the run never ends
Stuck ==
  /\ status = "running"
  /\ \E n \in {TickStep(Machine)} :
       /\ n.exc = "none"
       /\ n.pc = pc /\ n.fetched_pc = fetched_pc /\ n.stall_fetch = stall_fetch
       /\ n.reg = registers /\ n.tag = rob_id /\ n.rob = rob /\ n.cur_id = cur_id
       /\ n.rs = rs /\ n.alu = alu /\ n.pred = pred /\ n.lsb = mem
       /\ n.memory = memory_data

\* C12: a program whose in-order execution reaches the sentinel never leaves the
\* pipeline in a state from which the sentinel cannot be committed.
C12_NoDeadlock ==
  ReachesSentinel => ~Stuck

\* C13: x0 reads 0 in every reachable state, no tag is recorded for x0, and an
\* instruction that names x0 as a source carries the value 0 and no pending tag.
C13_RegisterZero ==
  /\ registers[0] = 0
  /\ rob_id[0] = NO_TAG
  /\ \A k \in DOMAIN rs.arr :
       /\ (has_rs1(rs.arr[k].op) /\ rs.arr[k].op.rs1 = 0) =>
            (rs.arr[k].qj = NO_TAG /\ rs.arr[k].vj = 0)
       /\ (has_rs2(rs.arr[k].op) /\ rs.arr[k].op.rs2 = 0) =>
            (rs.arr[k].qk = NO_TAG /\ rs.arr[k].vk = 0)
  /\ \A k \in DOMAIN ops :
       /\ (has_rs1(ops[k].instr) /\ ops[k].instr.rs1 = 0) => ops[k].vj = 0
       /\ (has_rs2(ops[k].instr) /\ ops[k].instr.rs2 = 0) => ops[k].vk = 0

\* an instruction with rd = x0 and a nonzero result has committed, and an
\* instruction reading x0 was dispatched after that
C13_Witness ==
  \E i \in DOMAIN commit_log :
    /\ has_rd(Committed(i).instr) /\ Committed(i).instr.rd = 0 /\ Committed(i).value # 0
    /\ \E k \in DOMAIN ops :
         /\ ops[k].cycle > Committed(i).cycle
         /\ has_rs1(ops[k].instr) /\ ops[k].instr.rs1 = 0

-----------------------------------------------------------------------------
(* Programs of upper-immediate instructions. *)

UpperMenu ==
  { 4791,          \* lui   x5, 1
    -2147482953,   \* lui   x5, 0x80000
    -3273,         \* lui   x6, 0xFFFFF
    4759,          \* auipc x5, 1
    791,           \* auipc x6, 0
    -1047277 }     \* addi  x10, x0, -1

UpperPrograms == {body \o [i \in 1 .. PadLen |-> NOP] : body \in [1 .. ProgLen -> UpperMenu]}

InitUpper == InitWith(UpperPrograms)

TickUpper == TickUpTo(MaxCycles)

NextUpper == TickUpper

SpecUpper == InitUpper /\ [][NextUpper]_vars

-----------------------------------------------------------------------------
(* Short images that end in, or contain, a word that cannot be issued. *)

FaultLen == 3

FaultMenu ==
  { -1047277,    \* addi x10, x0, -1
    267388179,   \* addi x10, x0, 255
    77602851,    \* sw   x10, 64(x0)
    0 }          \* no RV32I encoding

\* an image of FaultLen words with nothing after them
FaultPrograms == [1 .. FaultLen -> FaultMenu]

InitFault == InitWith(FaultPrograms)

TickFault == TickUpTo(MaxCycles)

NextFault == TickFault

SpecFault == InitFault /\ [][NextFault]_vars

-----------------------------------------------------------------------------
(* Calls of Memory::store and Memory::load on the data memory. *)

MaxAccesses == 2

MemAddresses == {64, 65, -1}

MemValues == {305419896, -1, 32897, MinInt}

StoreOps == {"SB", "SH", "SW"}

LoadOps == {"LB", "LH", "LW", "LBU", "LHU"}

InitMemory == InitWith({<<NOP>>})

\* one call store(address, data, op)
MemStore ==
  /\ Len(mem_log) < MaxAccesses
  /\ \E a \in MemAddresses, w \in MemValues, op \in StoreOps :
       /\ memory_data' = store(memory_data, a, w, op)
       /\ mem_log' = Append(mem_log, [rob_id |-> NO_TAG, op_type |-> op, address |-> a,
                                      data |-> w, cycle |-> 0])
  /\ UNCHANGED <<pc, fetched_pc, stall_fetch, registers, rob_id, rob, cur_id, rs, alu, pred,
                 mem, loader, cycle_count, status, exit_code, issue_log, ops, squash_log,
                 commit_log, result_log, update_log, stdin>>

\* one call load(address, op); Memory::load is const
MemLoad ==
  /\ Len(mem_log) < MaxAccesses
  /\ \E a \in MemAddresses, op \in LoadOps :
       mem_log' = Append(mem_log, [rob_id |-> NO_TAG, op_type |-> op, address |-> a,
                                   data |-> load(memory_data, a, op), cycle |-> 0])
  /\ UNCHANGED <<pc, fetched_pc, stall_fetch, registers, rob_id, rob, cur_id, rs, alu, pred,
                 mem, memory_data, loader, cycle_count, status, exit_code, issue_log, ops,
                 squash_log, commit_log, result_log, update_log, stdin>>

NextMemory == MemStore \/ MemLoad

SpecMemory == InitMemory /\ [][NextMemory]_vars

-----------------------------------------------------------------------------
(* Loading of the program image (BinaryLoader::loadFile, loadFromStdin).
   A line of the input is taken as already split into what the loops read from it:
   an empty line, an @address line with its hexadecimal value, or a line of bytes. *)

MaxLines == 3

BlankLine == [kind |-> "blank"]

LineMenu ==
  { BlankLine,
    [kind |-> "address", value |-> 64],         \* @40
    [kind |-> "bytes", bytes |-> <<19, 0>>],    \* 13 00
    [kind |-> "bytes", bytes |-> <<255>>] }     \* ff

InputTexts == [1 .. MaxLines -> LineMenu]

InitLoader ==
  /\ InitMachine({<<>>}, {"WEAK_NOT_TAKEN"})
  /\ \E ls \in InputTexts :
       stdin = [lines |-> ls, pos |-> 1, current_address |-> 0, done |-> FALSE]

\* memory[current_address++] = byte, for the bytes of one line
StoreLine(image, address, bytes) ==
  [a \in DOMAIN image \cup {Add32(address, k - 1) : k \in DOMAIN bytes} |->
     IF \E k \in DOMAIN bytes : Add32(address, k - 1) = a
       THEN bytes[CHOOSE k \in DOMAIN bytes :
                    /\ Add32(address, k - 1) = a
                    /\ \A j \in DOMAIN bytes : Add32(address, j - 1) = a => j <= k]
       ELSE image[a]]

\* one turn of the while (std::getline(...)) loop
ReadLine ==
  /\ ~stdin.done
  /\ IF stdin.pos > Len(stdin.lines)
       THEN /\ stdin' = [stdin EXCEPT !.done = TRUE]
            /\ loader' = loader
     ELSE IF stdin.lines[stdin.pos].kind = "blank"
       THEN /\ stdin' = [stdin EXCEPT !.pos = @ + 1, !.done = TRUE]
            /\ loader' = loader
     ELSE IF stdin.lines[stdin.pos].kind = "address"
       THEN /\ stdin' = [stdin EXCEPT !.pos = @ + 1,
                                      !.current_address = stdin.lines[stdin.pos].value]
            /\ loader' = loader
     ELSE /\ stdin' = [stdin EXCEPT !.pos = @ + 1,
                                    !.current_address =
                                       Add32(@, Len(stdin.lines[stdin.pos].bytes))]
          /\ loader' = StoreLine(loader, stdin.current_address, stdin.lines[stdin.pos].bytes)
  /\ UNCHANGED <<pc, fetched_pc, stall_fetch, registers, rob_id, rob, cur_id, rs, alu, pred,
                 mem, memory_data, cycle_count, status, exit_code, issue_log, ops, mem_log,
                 squash_log, commit_log, result_log, update_log>>

NextLoader == ReadLine

SpecLoader == InitLoader /\ [][NextLoader]_vars

-----------------------------------------------------------------------------
(* Short images of words with an R-type or shift-immediate opcode, some of them
   with a funct7 field that RV32I does not define. *)

DecodeLen == 2

DecodeMenu ==
  { 267388179,    \* addi x10, x0, 255
    10814899,     \* add  x11, x10, x10
    44369331,     \* funct7 0000001, funct3 000, opcode 0110011 (mul x11, x10, x10 of RV32M)
    1075139859,   \* srai x10, x10, 1
    1075123475,   \* funct7 0100000, funct3 001, opcode 0010011 (no RV32I encoding)
    34952467 }    \* funct7 0000001, funct3 101, opcode 0010011 (no RV32I encoding)

DecodePrograms == [1 .. DecodeLen -> DecodeMenu]

InitDecode == InitWith(DecodePrograms)

TickDecode == TickUpTo(MaxCycles)

NextDecode == TickDecode

SpecDecode == InitDecode /\ [][NextDecode]_vars

-----------------------------------------------------------------------------
(* The loop of CPU::run: while the program runs and the cycle limit is not reached,
   the next tick is taken. *)

\* one iteration of the loop, seen on the cycle counter
Ticks == status = "running" /\ cycle_count < MaxCycles /\ cycle_count' = cycle_count + 1

(* Programs of five words around a recovery: jumps, branches, arithmetic and stores. *)

RecoveryLen == 5

RecoveryMenu ==
  { 13959399,    \* jalr x1, 13(x10)
    1123,        \* beq  x0, x0, +8
    -1047277,    \* addi x10, x0, -1
    77602851 }   \* sw   x10, 64(x0)

RecoveryPrograms ==
  {body \o [i \in 1 .. PadLen |-> NOP] : body \in [1 .. RecoveryLen -> RecoveryMenu]}

InitRecovery == InitWith(RecoveryPrograms)

TickRecovery == TickUpTo(MaxCycles)

NextRecovery == TickRecovery

SpecRecovery == InitRecovery /\ [][NextRecovery]_vars

\* the same runs, with the loop of CPU::run taking its next tick
SpecFair == InitRecovery /\ [][NextRecovery]_vars /\ WF_cycle_count(Ticks)

-----------------------------------------------------------------------------
(* Calls of Predictor::update on a predictor in any counter state. *)

MaxUpdates == 6

InitUpdate == InitFrom({<<NOP>>}, CounterStates)

\* one call update(taken)
UpdateCall ==
  /\ Len(update_log) < MaxUpdates
  /\ \E taken \in BOOLEAN :
       /\ pred' = [pred EXCEPT !.state = update(pred.state, taken)]
       /\ update_log' = Append(update_log, [before |-> pred.state, taken |-> taken])
  /\ UNCHANGED <<pc, fetched_pc, stall_fetch, registers, rob_id, rob, cur_id, rs, alu, mem,
                 memory_data, loader, cycle_count, status, exit_code, issue_log, ops,
                 mem_log, squash_log, commit_log, result_log, stdin>>

NextUpdate == UpdateCall

SpecUpdate == InitUpdate /\ [][NextUpdate]_vars

-----------------------------------------------------------------------------
(* Dispatch of waiting entries (CPU::dispatch, LSB::tick). *)

\* the machine as CPU::dispatch finds it in the coming tick, and as it leaves it
AtDispatch == Broadcasts([Machine EXCEPT !.cycle_count = cycle_count + 1])

AfterDispatch == dispatch(AtDispatch, 0)

\* an RS entry that still waits for an operand
Pending(e) == e.qj # NO_TAG \/ e.qk # NO_TAG

PendingAtDispatch == {i \in 1 .. AtDispatch.rs.count : Pending(Visible(AtDispatch.rs)[i])}

IsMemOp(e) == e.op.type = "S" \/ IsLoad(e.op)

LsbEntriesOf(lsb, id) == {k \in DOMAIN lsb.entries : lsb.entries[k].valid /\ lsb.entries[k].rob_id = id}

\* the LSB slots in which LSB::tick of the coming tick starts an execution
StartsExecuting ==
  {k \in DOMAIN mem.entries :
     LSBTick(mem, memory_data).lsb.entries[k].executing /\ ~mem.entries[k].executing}

\* C14: an RS entry with qj or qk other than NO_TAG is never handed to the ALU, the
\* predictor or (as executable) to the LSB, and dispatch leaves it in the RS; a load or
\* store in that state has exactly LSB placeholders with can_execute = FALSE; and
\* LSB::tick starts the execution only of a valid entry whose can_execute is TRUE.
C14_PendingNotDispatched ==
  /\ \A k \in DOMAIN ops : ops[k].qj = NO_TAG /\ ops[k].qk = NO_TAG
  /\ (status = "running" /\ AfterDispatch.exc = "none") =>
       \A i \in PendingAtDispatch :
         LET e == Visible(AtDispatch.rs)[i]
         IN  /\ \E j \in 1 .. AfterDispatch.rs.count : Visible(AfterDispatch.rs)[j] = e
             /\ \A k \in Len(AtDispatch.ops) + 1 .. Len(AfterDispatch.ops) :
                  AfterDispatch.ops[k].id # e.dest_tag
             /\ IsMemOp(e) =>
                  /\ LsbEntriesOf(AfterDispatch.lsb, e.dest_tag) # {}
                  /\ \A k \in LsbEntriesOf(AfterDispatch.lsb, e.dest_tag) :
                       ~AfterDispatch.lsb.entries[k].can_execute
  /\ status = "running" =>
       \A k \in StartsExecuting : mem.entries[k].valid /\ mem.entries[k].can_execute

-----------------------------------------------------------------------------
(* Retirement (ReorderBuffer::commit, CPU::commit). *)

\* C15: no two instructions are retired in the same tick; an instruction squashed by a
\* misprediction flush is never retired; and the register file changes only by the
\* write of the instruction being retired.
C15_OneCommitPerTick ==
  /\ \A i, j \in DOMAIN commit_log : i < j => Committed(i).cycle < Committed(j).cycle
  /\ \A q \in squash_log : \A i \in DOMAIN commit_log : Committed(i).id # q.id
  /\ \A i \in DOMAIN commit_log :
       RegsAfter(i) = IF has_rd(Committed(i).instr) /\ ~Committed(i).terminated
                        THEN reg_write(Committed(i).before, Committed(i).instr.rd,
                                       Committed(i).value)
                        ELSE Committed(i).before

\* two instructions are retired in consecutive ticks, a retired instruction changes a
\* register, and a flush has squashed entries, none of which was retired
C15_Witness ==
  /\ \E i \in 1 .. Len(commit_log) - 1 : Committed(i + 1).cycle = Committed(i).cycle + 1
  /\ \E i \in DOMAIN commit_log : RegsAfter(i) # Committed(i).before
  /\ squash_log # {}

-----------------------------------------------------------------------------
(* Result timing (CPU::Tick, ALU::tick, Predictor::tick, LSB::tick). *)

\* the results handed to the ROB and the RS by a unit in cycle c
Delivered(log, unit, c) ==
  {[id |-> r.id, value |-> r.value] : r \in {x \in log : x.unit = unit /\ x.cycle = c}}

\* the result a unit computed in its tick of the cycle that has just ended
ComputedALU ==
  IF alu.next_broadcast_result.valid
    THEN {[id |-> alu.next_broadcast_result.dest_tag, value |-> alu.next_broadcast_result.result]}
    ELSE {}

ComputedPredictor ==
  IF pred.next_broadcast_result.valid
    THEN {[id |-> pred.next_broadcast_result.rob_id, value |-> pred.next_broadcast_result.pc]}
    ELSE {}

ComputedLoad ==
  IF mem.next_broadcast_result.valid /\ is_load(mem.next_broadcast_result.op_type)
    THEN {[id |-> mem.next_broadcast_result.dest_tag, value |-> mem.next_broadcast_result.data]}
    ELSE {}

ALUResultNextCycle == Delivered(result_log', "alu", cycle_count') = ComputedALU

PredictorResultNextCycle == Delivered(result_log', "pred", cycle_count') = ComputedPredictor

LoadResultNextCycle == Delivered(result_log', "lsb", cycle_count') = ComputedLoad

\* C16: the results delivered to the ROB and the RS in a cycle are exactly the results
\* the units computed in their tick of the cycle before: none of the same cycle, none
\* held back longer.
C16_ResultNextCycle ==
  [][ALUResultNextCycle /\ PredictorResultNextCycle /\ LoadResultNextCycle]_vars

-----------------------------------------------------------------------------
(* Recovery and fetch (CPU::Tick, CPU::commit). *)

\* the issues that follow the commit in cycle c
IssuedAfter(c) == {k \in DOMAIN issue_log : issue_log[k].cycle > c}

\* the commit of this tick is that of a mispredicted head
RecoveryTick ==
  /\ Len(commit_log') = Len(commit_log) + 1
  /\ commit_log'[Len(commit_log')].mispredicted

FirstIssueFromCorrectedPc ==
  \A i \in DOMAIN commit_log :
    Committed(i).mispredicted =>
      /\ \A k \in DOMAIN issue_log : issue_log[k].cycle # Committed(i).cycle
      /\ \A k \in IssuedAfter(Committed(i).cycle) :
           (\A j \in IssuedAfter(Committed(i).cycle) : k <= j) =>
             /\ issue_log[k].pc = Committed(i).corrected_pc
             /\ issue_log[k].instr =
                  decode(fetchInstruction(loader, Committed(i).corrected_pc).word)

\* C17: in the tick that commits a mispredicted head nothing is fetched and nothing is
\* issued, and the first instruction issued afterwards is the one at corrected_pc.
C17_NoIssueOnRecovery ==
  /\ []FirstIssueFromCorrectedPc
  /\ [][RecoveryTick => (fetched_pc' = fetched_pc /\ issue_log' = issue_log)]_vars

\* a mispredicted head has committed, its flush squashed younger instructions, and an
\* instruction has been issued since
C17_Witness ==
  \E i \in DOMAIN commit_log :
    /\ Committed(i).mispredicted
    /\ \E q \in squash_log : q.cycle = Committed(i).cycle
    /\ IssuedAfter(Committed(i).cycle) # {}

-----------------------------------------------------------------------------
(* LUI and AUIPC (decode, CPU::issue, CPU::dispatch, ALU::execute). *)

\* the instruction word at address a of the image, and the word with its low 12 bits cleared
WordAt(a) == fetchInstruction(loader, a).word

UpperImmediate(w) == w - Bits(w, 0, 12)

\* C18: when LUI rd,K with rd other than x0 commits, reg[rd] becomes the instruction
\* word with its low 12 bits cleared, that is (K << 12) mod 2^32.
C18_LuiValue ==
  \A i \in DOMAIN commit_log :
    (Committed(i).instr.op = "LUI" /\ Committed(i).instr.rd # 0) =>
      RegsAfter(i)[Committed(i).instr.rd] = UpperImmediate(WordAt(Committed(i).pc))

\* C19: when AUIPC rd,K with rd other than x0 commits, reg[rd] becomes the address the
\* instruction was fetched from plus (K << 12), mod 2^32.
C19_AuipcValue ==
  \A i \in DOMAIN commit_log :
    (Committed(i).instr.op = "AUIPC" /\ Committed(i).instr.rd # 0) =>
      RegsAfter(i)[Committed(i).instr.rd] =
        Add32(Committed(i).pc, UpperImmediate(WordAt(Committed(i).pc)))

-----------------------------------------------------------------------------
(* The 2-bit counter (Predictor::update). *)

\* the counter state after the n-th call
StateAfter(n) == IF n < Len(update_log) THEN update_log[n + 1].before ELSE pred.state

\* position of a counter state on the scale from STRONG_NOT_TAKEN to STRONG_TAKEN
Rank(state) ==
  CASE state = "STRONG_NOT_TAKEN" -> 0
    [] state = "WEAK_NOT_TAKEN"   -> 1
    [] state = "WEAK_TAKEN"       -> 2
    [] state = "STRONG_TAKEN"     -> 3

\* C20: after four consecutive update(true) calls, from whichever state they started, the
\* counter is STRONG_TAKEN; update(true) on STRONG_TAKEN leaves it there; and a single
\* update moves the counter by at most one step.
C20_CounterSaturates ==
  /\ \A n \in 4 .. Len(update_log) :
       (\A k \in n - 3 .. n : update_log[k].taken) => StateAfter(n) = "STRONG_TAKEN"
  /\ \A n \in DOMAIN update_log :
       (update_log[n].before = "STRONG_TAKEN" /\ update_log[n].taken) =>
         StateAfter(n) = "STRONG_TAKEN"
  /\ \A n \in DOMAIN update_log :
       /\ Rank(StateAfter(n)) - Rank(update_log[n].before) \in {-1, 0, 1}
       /\ StateAfter(n) \in CounterStates

\* from STRONG_NOT_TAKEN, five taken updates and then a not-taken one
C20_Witness ==
  /\ Len(update_log) = 6
  /\ update_log[1].before = "STRONG_NOT_TAKEN"
  /\ \A k \in 1 .. 5 : update_log[k].taken
  /\ ~update_log[6].taken
  /\ StateAfter(2) = "WEAK_TAKEN" /\ StateAfter(4) = "STRONG_TAKEN"
  /\ StateAfter(5) = "STRONG_TAKEN"
  /\ pred.state = "WEAK_TAKEN"

-----------------------------------------------------------------------------
(* Fetch and issue of a word that is missing or invalid (CPU::Tick, CPU::issue). *)

\* the word at address a cannot be fetched, or decodes to the invalid variant
Faulty(image, a) ==
  fetchInstruction(image, a).threw \/ decode(fetchInstruction(image, a).word).type = "invalid"

\* the machine as the fetch stage of the coming tick finds it
AtFetch == CommitStage(AfterDispatch)

\* the fetch stage of the coming tick runs and meets such a word
FetchFaults ==
  /\ status = "running"
  /\ AtFetch.exc = "none"
  /\ ~AtFetch.stall_fetch /\ ~isFull(AtFetch.rob)
  /\ Faulty(loader, AtFetch.pc)

FaultLeavesNoTrace ==
  FetchFaults =>
    /\ FetchStage(AtFetch).exc = "none"
    /\ FetchStage(AtFetch).rob = AtFetch.rob
    /\ FetchStage(AtFetch).rs = AtFetch.rs
    /\ FetchStage(AtFetch).tag = AtFetch.tag
    /\ FetchStage(AtFetch).cur_id = AtFetch.cur_id
    /\ FetchStage(AtFetch).pc = AtFetch.pc

\* instructions are in the ROB, the next word cannot be issued, and no further tick
\* changes anything: what is in flight never commits
InFlightStranded == Stuck /\ ~isEmpty(rob) /\ Faulty(loader, pc)

\* C21: a fetch/issue phase that meets a missing or invalid word allocates no ROB entry
\* and no RS entry, sets no tag and leaves pc at that word; the run is not aborted; and
\* the instructions in flight are not left in the ROB for ever.
C21_FaultyFetch ==
  /\ FaultLeavesNoTrace
  /\ status # "aborted"
  /\ ~InFlightStranded

-----------------------------------------------------------------------------
(* Memory round trip (Memory::store, Memory::load). *)

\* number of bytes an access touches
Width(op) ==
  CASE op \in {"SB", "LB", "LBU"} -> 1
    [] op \in {"SH", "LH", "LHU"} -> 2
    [] op \in {"SW", "LW"}        -> 4

\* the byte addresses a, a+1, .. of an access, modulo 2^32
Touched(a, op) == {Add32(a, k) : k \in 0 .. Width(op) - 1}

\* the low n bits of w, read as unsigned and as two's complement
LowBits(w, n) == IF n = 32 THEN w ELSE Bits(w, 0, n)

LowBitsSigned(w, n) ==
  IF n = 32 THEN w
  ELSE IF Bits(w, n - 1, 1) = 1 THEN Bits(w, 0, n - 1) - Shl32(1, n - 1)
  ELSE Bits(w, 0, n - 1)

\* a load that directly follows a store to the same address and is no wider than it
\* returns the low bits of the stored value
RoundTrip ==
  \A k \in 2 .. Len(mem_log) :
    LET st == mem_log[k - 1]
        ld == mem_log[k]
    IN  (/\ st.op_type \in StoreOps /\ ld.op_type \in LoadOps
         /\ st.address = ld.address /\ Width(ld.op_type) <= Width(st.op_type)) =>
          ld.data = IF ld.op_type \in {"LB", "LH"}
                      THEN LowBitsSigned(st.data, 8 * Width(ld.op_type))
                      ELSE LowBits(st.data, 8 * Width(ld.op_type))

\* a byte outside the image that no store has touched reads as 0
UnwrittenReadsZero ==
  \A k \in DOMAIN mem_log :
    (/\ mem_log[k].op_type \in LoadOps
     /\ \A b \in Touched(mem_log[k].address, mem_log[k].op_type) :
          /\ b \notin DOMAIN loader
          /\ \A j \in 1 .. k - 1 :
               mem_log[j].op_type \in StoreOps =>
                 b \notin Touched(mem_log[j].address, mem_log[j].op_type)) =>
      mem_log[k].data = 0

\* a store changes only the bytes it touches; a load changes nothing
AccessFrame ==
  Len(mem_log') = Len(mem_log) + 1 =>
    LET e == mem_log'[Len(mem_log')]
    IN  IF e.op_type \in LoadOps THEN memory_data' = memory_data
        ELSE /\ DOMAIN memory_data' = DOMAIN memory_data \cup Touched(e.address, e.op_type)
             /\ \A b \in DOMAIN memory_data \ Touched(e.address, e.op_type) :
                  memory_data'[b] = memory_data[b]
             /\ \A k \in 0 .. Width(e.op_type) - 1 :
                  memory_data'[Add32(e.address, k)] = Bits(e.data, 8 * k, 8)

\* C22: storing w with SW/SH/SB and loading at the same address with a load of the same
\* or a smaller width returns the low bits of w, little-endian, LH and LB sign-extended;
\* a store changes only the 4/2/1 bytes from its address on; a byte never written reads 0.
C22_MemoryRoundTrip ==
  /\ [](RoundTrip /\ UnwrittenReadsZero)
  /\ [][AccessFrame]_vars

\* a halfword with both sign bits set is stored at an odd address and read back
\* sign-extended
C22_Witness ==
  /\ Len(mem_log) = 2
  /\ mem_log[1].op_type = "SH" /\ mem_log[1].address = 65 /\ mem_log[1].data = 32897
  /\ mem_log[2].op_type = "LH" /\ mem_log[2].address = 65 /\ mem_log[2].data = -32639

-----------------------------------------------------------------------------
(* Blank lines in the image (BinaryLoader::loadFile, loadFromStdin). *)

\* the bytes and addresses of all lines from line k on, blank lines passed over
RECURSIVE ImageOfLines(_, _, _, _)
ImageOfLines(lines, k, address, image) ==
  IF k > Len(lines) THEN image
  ELSE IF lines[k].kind = "blank" THEN ImageOfLines(lines, k + 1, address, image)
  ELSE IF lines[k].kind = "address" THEN ImageOfLines(lines, k + 1, lines[k].value, image)
  ELSE ImageOfLines(lines, k + 1, Add32(address, Len(lines[k].bytes)),
                    StoreLine(image, address, lines[k].bytes))

\* C23: when loading has ended, the image holds the bytes of every line of the input at
\* their addresses, also of the lines that follow a blank line.
C23_BlankLinesSkipped ==
  stdin.done => loader = ImageOfLines(stdin.lines, 1, 0, <<>>)

-----------------------------------------------------------------------------
(* The words riscv::decode accepts. *)

\* w has one of the R/I/S/B/U/J encodings of RV32I that the decoder implements
ValidRV32I(w) ==
  LET opcode == Bits(w, 0, 7)
      funct3 == Bits(w, 12, 3)
      funct7 == Bits(w, 25, 7)
  IN  CASE opcode \in {55, 23, 111} -> TRUE
        [] opcode = 103 -> funct3 = 0
        [] opcode = 99  -> funct3 \in {0, 1, 4, 5, 6, 7}
        [] opcode = 3   -> funct3 \in {0, 1, 2, 4, 5}
        [] opcode = 35  -> funct3 \in {0, 1, 2}
        [] opcode = 19  -> \/ funct3 \in {0, 2, 3, 4, 6, 7}
                           \/ funct3 = 1 /\ funct7 = 0
                           \/ funct3 = 5 /\ funct7 \in {0, 32}
        [] opcode = 51  -> \/ funct7 = 0
                           \/ funct7 = 32 /\ funct3 \in {0, 5}
        [] OTHER -> FALSE

\* C24: decode returns the invalid variant for every word that is not a valid RV32I
\* encoding, so every word that was decoded and issued is a valid one; this includes
\* R-type words with a funct7 other than 0000000 and 0100000 and shift-immediate words
\* with an illegal funct7.
C24_InvalidWordsRejected ==
  \A i \in DOMAIN issue_log :
    \/ ValidRV32I(WordAt(issue_log[i].pc))
    \/ decode(WordAt(issue_log[i].pc)) = Invalid

-----------------------------------------------------------------------------
(* Work in the functional units after a recovery (ReorderBuffer::commit, LSB::flush). *)

\* the instruction with ROB id `id` was squashed by a recovery
Squashed(id) == \E q \in squash_log : q.id = id

\* tags of the instruction the ALU accepted and of its result not yet on the CDB
HeldByALU ==
  {w.dest_tag : w \in {u \in {alu.current_instruction, alu.next_broadcast_result} : u.valid}}

HeldByPredictor ==
  {w.rob_id : w \in {u \in {pred.current_instruction, pred.next_broadcast_result} : u.valid}}

\* tags of the load results the LSB has computed and not yet put on the CDB
HeldByLSB ==
  {w.rob_id : w \in {u \in {mem.broadcast_result, mem.next_broadcast_result} :
                       u.valid /\ is_load(u.op_type)}}

ALUHoldsNoSquashed == \A id \in HeldByALU : ~Squashed(id)

PredictorHoldsNoSquashed == \A id \in HeldByPredictor : ~Squashed(id)

LSBHoldsNoSquashed == \A id \in HeldByLSB : ~Squashed(id)

\* C25: after a misprediction recovery no functional unit holds work of a squashed
\* instruction: neither the ALU nor the predictor holds an accepted instruction or a
\* pending result with a squashed tag, and the LSB holds no pending result of a
\* squashed load.
C25_NoSquashedWork ==
  ALUHoldsNoSquashed /\ PredictorHoldsNoSquashed /\ LSBHoldsNoSquashed

-----------------------------------------------------------------------------
(* Results that reach the CDB after their instruction was squashed (CPU::Tick,
   ReorderBuffer::add_entry, ReorderBuffer::flush). *)

\* the machine as each broadcast of the coming tick finds it
AtMemoryBroadcast == [Machine EXCEPT !.cycle_count = cycle_count + 1, !.alu = ALUTick(alu)]

AtALUBroadcast == [BroadcastMemory(AtMemoryBroadcast) EXCEPT !.pred = PredictorTick(pred)]

AtPredictorBroadcast == MemTick(BroadcastALU(AtALUBroadcast))

\* the result the unit puts on the CDB in the coming tick is one of a squashed instruction
LateLoadResult ==
  /\ AtMemoryBroadcast.lsb.broadcast_result.valid
  /\ is_load(AtMemoryBroadcast.lsb.broadcast_result.op_type)
  /\ Squashed(AtMemoryBroadcast.lsb.broadcast_result.dest_tag)

LateALUResult ==
  /\ AtALUBroadcast.alu.broadcast_result.valid
  /\ Squashed(AtALUBroadcast.alu.broadcast_result.dest_tag)

LatePredictorResult ==
  /\ AtPredictorBroadcast.pred.broadcast_result.valid
  /\ Squashed(AtPredictorBroadcast.pred.broadcast_result.rob_id)

\* ROB and RS entries of instructions that were not squashed
LiveRob(m) == {k \in DOMAIN m.rob.arr : InQueue(m.rob, k) /\ ~Squashed(m.rob.arr[k].id)}

LiveRs(m) == {k \in DOMAIN m.rs.arr : InQueue(m.rs, k) /\ ~Squashed(m.rs.arr[k].dest_tag)}

\* the broadcast that takes m to n changes no entry of an instruction that was not squashed
LiveUntouched(m, n) ==
  /\ \A k \in LiveRob(m) : n.rob.arr[k] = m.rob.arr[k]
  /\ \A k \in LiveRs(m) : n.rs.arr[k] = m.rs.arr[k]

\* ROB ids are handed out in strictly increasing order, across flushes as well
IdsNotReused ==
  \A i, j \in DOMAIN issue_log : i < j => issue_log[i].id < issue_log[j].id

\* C26: a CDB result whose tag belongs to a squashed instruction sets neither value nor
\* ready on a ROB entry issued after the flush and fills no operand of an RS entry
\* issued after the flush; ROB ids strictly increase and are not reused after a flush.
C26_LateResultNoOp ==
  /\ IdsNotReused
  /\ status = "running" =>
       /\ LateLoadResult => LiveUntouched(AtMemoryBroadcast, BroadcastMemory(AtMemoryBroadcast))
       /\ LateALUResult => LiveUntouched(AtALUBroadcast, BroadcastALU(AtALUBroadcast))
       /\ LatePredictorResult =>
            LiveUntouched(AtPredictorBroadcast, BroadcastPredictor(AtPredictorBroadcast))

\* a predictor result of a squashed instruction is about to be broadcast while the ROB
\* and the RS hold an instruction issued after the flush
C26_Witness ==
  /\ status = "running"
  /\ LatePredictorResult
  /\ LiveRob(AtPredictorBroadcast) # {}
  /\ LiveRs(AtPredictorBroadcast) # {}

-----------------------------------------------------------------------------
(* From ALU::set_instruction to the CDB. *)

\* C27: an instruction the ALU accepted in the dispatch stage of tick T has its result
\* on the CDB in tick T+1.
C27_AluResultNextTick ==
  \A i \in DOMAIN ops :
    (ops[i].unit = "alu" /\ ops[i].cycle < cycle_count) =>
      \E r \in result_log :
        r.unit = "alu" /\ r.id = ops[i].id /\ r.cycle = ops[i].cycle + 1

-----------------------------------------------------------------------------
(* Entries CPU::dispatch hands to the units in one tick. *)

\* the dispatches to `unit` in cycle c
DispatchedTo(unit, c) == {i \in DOMAIN ops : ops[i].unit = unit /\ ops[i].cycle = c}

OnePerTick(unit) == \A c \in 1 .. cycle_count : Cardinality(DispatchedTo(unit, c)) <= 1

\* C28: in every tick at most one RS entry is dispatched to the ALU, at most one to the
\* predictor, and at most one load or store is handed to the LSB as executable.
C28_OneDispatchPerUnit ==
  OnePerTick("alu") /\ OnePerTick("pred") /\ OnePerTick("lsb")

OneAluPredictorDispatch == OnePerTick("alu") /\ OnePerTick("pred")

-----------------------------------------------------------------------------
(* The counter of the predictor over a run (Predictor::tick, Predictor::update). *)

\* the predictor's tick of the coming cycle resolves a conditional branch
ResolvesBranch ==
  /\ pred.current_instruction.valid
  /\ ~is_unconditional_jump(pred.current_instruction.branch_type)

\* the outcome of that branch
ActualTaken ==
  BranchCondition(pred.current_instruction.branch_type,
                  pred.current_instruction.rs1, pred.current_instruction.rs2)

\* C29: each time the predictor resolves a conditional branch, the 2-bit counter moves
\* one step toward the actual outcome of the branch; it does not stay at its initial
\* state for the whole run.
C29_CounterFollowsOutcome ==
  [][ResolvesBranch => pred'.state = update(pred.state, ActualTaken)]_vars

-----------------------------------------------------------------------------
(* Completion of a store (LSB::tick, memory broadcast of CPU::Tick). *)

\* the result the LSB offers to the memory broadcast of the coming tick is a store's
StoreCompletes ==
  /\ status = "running"
  /\ AtMemoryBroadcast.lsb.broadcast_result.valid
  /\ is_store(AtMemoryBroadcast.lsb.broadcast_result.op_type)

\* C30: the completion of a store changes no ROB entry and no RS operand and delivers
\* nothing to them: the ROB entry with id 0 is not marked ready and no operand waiting
\* on tag 0 is woken, although the result record of the store carries dest_tag 0.
C30_StoreCompletionSilent ==
  StoreCompletes =>
    /\ AtMemoryBroadcast.lsb.broadcast_result.dest_tag = 0
    /\ BroadcastMemory(AtMemoryBroadcast).rob = AtMemoryBroadcast.rob
    /\ BroadcastMemory(AtMemoryBroadcast).rs = AtMemoryBroadcast.rs
    /\ BroadcastMemory(AtMemoryBroadcast).result_log = AtMemoryBroadcast.result_log

\* a store completes while the ROB holds an entry that is not ready and the RS an entry
\* with a pending operand
C30_Witness ==
  /\ StoreCompletes
  /\ \E k \in DOMAIN rob.arr : InQueue(rob, k) /\ ~rob.arr[k].ready
  /\ \E k \in DOMAIN rs.arr : InQueue(rs, k) /\ (rs.arr[k].qj # NO_TAG \/ rs.arr[k].qk # NO_TAG)

-----------------------------------------------------------------------------
(* Committed stores across a recovery (LSB::commit_memory, LSB::flush). *)

\* the store of commit record i has written memory, at the address and with the data
\* its operands had when it was retired
StoreWritten(i) ==
  \E k \in DOMAIN mem_log :
    /\ mem_log[k].rob_id = Committed(i).id
    /\ is_store(mem_log[k].op_type)
    /\ mem_log[k].address =
         Add32(Committed(i).before[Committed(i).instr.rs1], Committed(i).instr.imm)
    /\ mem_log[k].data = Committed(i).before[Committed(i).instr.rs2]

\* commit record i is a store that was retired before a recovery and had not written
\* memory by the time of the recovery
StoreBeforeRecovery(i) ==
  /\ Committed(i).instr.type = "S"
  /\ \E j \in i + 1 .. Len(commit_log) :
       /\ Committed(j).mispredicted
       /\ \A k \in DOMAIN mem_log :
            mem_log[k].rob_id = Committed(i).id => mem_log[k].cycle > Committed(j).cycle

StoreOutstanding ==
  \E i \in DOMAIN commit_log : StoreBeforeRecovery(i) /\ ~StoreWritten(i)

\* the flush of a recovery leaves the entries of such stores in the LSB
StoreKeptByFlush ==
  \A i \in DOMAIN commit_log :
    (StoreBeforeRecovery(i) /\ ~StoreWritten(i)) =>
      \E k \in DOMAIN mem.entries :
        /\ mem.entries[k].valid /\ mem.entries[k].committed
        /\ mem.entries[k].rob_id = Committed(i).id

-----------------------------------------------------------------------------
(* A second push for a rob_id the LSB already holds (LSB::add_instruction). *)

ValidEntries(l) == {k \in DOMAIN l.entries : l.entries[k].valid}

\* payloads a later push for the entry in slot k can carry
Refreshes(k) ==
  {LSBInstruction(mem.entries[k].op_type, a, d, mem.entries[k].imm, c, mem.entries[k].rob_id) :
     a \in {0, 64}, d \in {0, -1}, c \in BOOLEAN}

\* pushing inst for the rob_id of slot k updates the payload of that slot and nothing else
UpdatesInPlace(k, inst) ==
  LET r == add_instruction(mem, inst)
  IN  /\ ~r.threw
      /\ r.lsb.entry_count = mem.entry_count
      /\ ValidEntries(r.lsb) = ValidEntries(mem)
      /\ \A j \in DOMAIN mem.entries : j # k => r.lsb.entries[j] = mem.entries[j]
      /\ r.lsb.entries[k] =
           [mem.entries[k] EXCEPT !.can_execute = inst.can_execute, !.address = inst.address,
                                  !.data = inst.data, !.imm = inst.imm,
                                  !.dest_tag = inst.dest_tag]
      /\ add_instruction(r.lsb, inst) = r

NoSharedRobId ==
  \A j, k \in ValidEntries(mem) : mem.entries[j].rob_id = mem.entries[k].rob_id => j = k

\* C32: a push for a rob_id that is valid in the LSB updates that entry in place: the
\* number of valid entries is unchanged, committed, executing and cycles_remaining of
\* the entry are unchanged, pushing the same payload twice equals pushing it once, and
\* no two valid entries ever share a rob_id.
C32_DuplicatePushUpdates ==
  [](/\ NoSharedRobId
     /\ \A k \in ValidEntries(mem) : \A inst \in Refreshes(k) : UpdatesInPlace(k, inst))

\* dispatch has pushed the same load or store twice while its entry was valid, and the
\* LSB holds a second entry
C32_Witness ==
  \E k \in ValidEntries(mem) :
    /\ Cardinality({i \in DOMAIN ops : ops[i].unit = "lsb" /\ ops[i].id = mem.entries[k].rob_id}) >= 2
    /\ \A i \in DOMAIN mem_log : mem_log[i].rob_id # mem.entries[k].rob_id
    /\ Cardinality(ValidEntries(mem)) >= 2

-----------------------------------------------------------------------------
(* Where register values change (RegisterFile::write, ReorderBuffer::commit,
   ReorderBuffer::flush). *)

\* over one tick the register file changes by the write of the instruction the tick
\* retired, and not at all when the tick retired none
RegistersFollowCommit ==
  IF Len(commit_log') = Len(commit_log)
    THEN registers' = registers
    ELSE LET rec == commit_log'[Len(commit_log')]
         IN  registers' =
               IF has_rd(rec.instr) /\ rec.instr.rd # 0 /\ ~rec.terminated
                 THEN [registers EXCEPT ![rec.instr.rd] = rec.value]
                 ELSE registers

\* the broadcasts, dispatch and the fetch/issue stage of the coming tick leave the
\* register values alone
StagesKeepRegisters ==
  status = "running" =>
    /\ AtDispatch.reg = registers
    /\ AfterDispatch.reg = registers
    /\ FetchStage(AtFetch).reg = AtFetch.reg

\* C33: register values change only in the commit stage, by the write of the retiring
\* ROB head's value to its destination register; issue, dispatch, the broadcasts and
\* the flush of a recovery change no register value.
C33_RegistersChangeAtCommit ==
  /\ []StagesKeepRegisters
  /\ [][RegistersFollowCommit]_vars

\* after a recovery that squashed an instruction whose result the ALU had delivered,
\* the registers hold a value written by a commit
C33_Witness ==
  /\ \E q \in squash_log : \E r \in result_log : r.id = q.id /\ r.unit = "alu"
  /\ \E j \in DOMAIN commit_log : Committed(j).mispredicted
  /\ \E i \in DOMAIN commit_log : RegsAfter(i) # Committed(i).before

-----------------------------------------------------------------------------
(* The latency of a memory operation (LSB::tick). *)

Executing(l) == {k \in ValidEntries(l) : l.entries[k].executing}

\* the slots whose entry starts executing in this tick
Started == {k \in Executing(mem') : k \notin Executing(mem)}

\* this tick makes the memory access of the entry in slot k
Performed(k) ==
  /\ Len(mem_log') = Len(mem_log) + 1
  /\ mem_log'[Len(mem_log')].rob_id = mem.entries[k].rob_id

\* this tick is a recovery and drops the uncommitted entry in slot k
Flushed(k) ==
  /\ ~mem.entries[k].committed
  /\ ~mem'.entries[k].valid
  /\ Len(commit_log') > Len(commit_log)
  /\ commit_log'[Len(commit_log')].mispredicted

LatencyStep ==
  /\ \A k \in Started : mem'.entries[k].cycles_remaining = 2
  /\ Executing(mem) # {} => Started = {}
  /\ \A k \in Executing(mem) :
       CASE mem.entries[k].cycles_remaining = 2 ->
              /\ ~Performed(k)
              /\ \/ /\ k \in Executing(mem')
                    /\ mem'.entries[k].rob_id = mem.entries[k].rob_id
                    /\ mem'.entries[k].cycles_remaining = 1
                 \/ Flushed(k)
         [] mem.entries[k].cycles_remaining = 1 -> Performed(k)
         [] OTHER -> FALSE

-----------------------------------------------------------------------------
(* The reservation station as a queue (CircularQueue::remove, CPU::dispatch) *)

IssuedIds == {issue_log[i].id : i \in DOMAIN issue_log}

DispatchedIds == {ops[i].id : i \in DOMAIN ops}

\* the tags of get(0) .. get(size-1) of the reservation station, head first
VisibleTags == [i \in 1 .. rs.count |-> Visible(rs)[i].dest_tag]

\* instructions that were issued and neither dispatched nor squashed
Waiting == {id \in IssuedIds : id \notin DispatchedIds /\ ~Squashed(id)}

VisibleOnce == \A i, j \in DOMAIN VisibleTags : VisibleTags[i] = VisibleTags[j] => i = j

VisibleAreWaiting == \A i \in DOMAIN VisibleTags : VisibleTags[i] \in Waiting

WaitingAreVisible == \A id \in Waiting : \E i \in DOMAIN VisibleTags : VisibleTags[i] = id

\* C35: the entries visible through get(0) .. get(size-1) of the reservation station
\* are the issued instructions that were neither dispatched nor flushed, each exactly
\* once: an entry removed at dispatch or dropped by a flush never becomes visible
\* again, and an instruction enqueued afterwards is visible.
C35_RemoveKeepsQueue ==
  /\ VisibleOnce
  /\ VisibleAreWaiting
  /\ WaitingAreVisible

-----------------------------------------------------------------------------
(* Results of the ALU and the predictor (ALU::tick, Predictor::tick, CPU::Tick) *)

\* dispatches to the ALU or the predictor of instructions that were not squashed
UnitDispatches ==
  {i \in DOMAIN ops : ops[i].unit \in {"alu", "pred"} /\ ~Squashed(ops[i].id)}

\* the deliveries of the result of instruction id by a unit (receive_broadcast calls)
Deliveries(id, unit) == {r \in result_log : r.id = id /\ r.unit = unit}

\* a dispatch whose two ticks have passed has put its result on the CDB
NoResultLost ==
  \A i \in UnitDispatches :
    (ops[i].cycle + 2 <= cycle_count /\ status = "running")
      => \E r \in Deliveries(ops[i].id, ops[i].unit) : r.cycle = ops[i].cycle + 2

NoResultDuplicated ==
  \A i \in UnitDispatches : Cardinality(Deliveries(ops[i].id, ops[i].unit)) <= 1

\* a unit takes no second instruction in the tick in which it took one
NoOverwrite ==
  \A i, j \in DOMAIN ops :
    (ops[i].unit \in {"alu", "pred"} /\ ops[i].unit = ops[j].unit
       /\ ops[i].cycle = ops[j].cycle) => i = j

\* C36: no result of the ALU or the predictor is lost or duplicated: every instruction
\* dispatched to one of them and not squashed has its result delivered to the ROB
\* exactly once, and neither unit accepts an instruction over one not yet delivered.
C36_ResultsDeliveredOnce ==
  /\ NoResultLost
  /\ NoResultDuplicated
  /\ NoOverwrite

-----------------------------------------------------------------------------
(* Dispatches and memory accesses per instruction (CPU::dispatch, LSB::tick) *)

Accesses(id) == {k \in DOMAIN mem_log : mem_log[k].rob_id = id}

OneAccessPerInstruction == \A id \in IssuedIds : Cardinality(Accesses(id)) <= 1

\* an instruction is handed to the LSB only before its access
NoPushAfterAccess ==
  \A i \in DOMAIN ops : \A k \in DOMAIN mem_log :
    (ops[i].unit = "lsb" /\ ops[i].id = mem_log[k].rob_id) => ops[i].cycle < mem_log[k].cycle

OneDispatchPerInstruction ==
  \A i, j \in DOMAIN ops : ops[i].id = ops[j].id => i = j

\* C37: an issued load or store accesses the data memory at most once: after its LSB
\* entry completed and was removed no entry with its rob_id enters the LSB again, and
\* no instruction is dispatched to a unit more than once.
C37_OneAccessOneDispatch ==
  /\ OneAccessPerInstruction
  /\ NoPushAfterAccess
  /\ OneDispatchPerInstruction

-----------------------------------------------------------------------------
(* Occupancy of the reservation station and the ROB (CPU::issue) *)

\* the ids of the entries in the ROB
RobIds == {rob.arr[k].id : k \in {j \in DOMAIN rob.arr : InQueue(rob, j)}}

RsWithinRob == rs.count <= rob.count

RsEntriesInRob == \A i \in DOMAIN VisibleTags : VisibleTags[i] \in RobIds

\* C38: the reservation station never discards an instruction: it holds no more
\* entries than the ROB in every reachable state, every RS entry belonging to an
\* instruction still in the ROB, so Issue finds a free slot whenever the ROB has one.
C38_RsNeverFull ==
  /\ RsWithinRob
  /\ RsEntriesInRob

-----------------------------------------------------------------------------
(* The entry the LSB works on (LSB::get_oldest_ready_entry, LSB::tick) *)

OneExecuting == Cardinality(Executing(mem)) <= 1

\* the executing entry has the smallest rob_id of the valid entries
ExecutingIsOldest ==
  \A k \in Executing(mem) : \A j \in ValidEntries(mem) :
    mem.entries[k].rob_id <= mem.entries[j].rob_id

\* the entries a tick puts into the LSB
Added == {j \in ValidEntries(mem') :
            j \notin ValidEntries(mem) \/ mem'.entries[j].rob_id # mem.entries[j].rob_id}

\* an entry added in a tick is younger than the entry executing after it
NoOlderAdded ==
  \A k \in Executing(mem') : \A j \in Added \ {k} :
    mem'.entries[j].rob_id > mem'.entries[k].rob_id

-----------------------------------------------------------------------------
(* Termination (ReorderBuffer::commit, CPU::run) *)

\* the decoded word 0x0ff00513, addi x10, x0, 255
Sentinel == decode(267388179)

Retired(id) == \E k \in DOMAIN commit_log : commit_log[k].id = id

\* the commit record that ended the program: the last one, of this tick, of a sentinel
\* at the head of the ROB, with every older instruction committed or squashed
EndsProgram(k) ==
  LET r == commit_log[k]
  IN  /\ k = Len(commit_log)
      /\ r.terminated
      /\ r.instr = Sentinel
      /\ r.cycle = cycle_count
      /\ ~Squashed(r.id)
      /\ ~isEmpty(rob) /\ front(rob).id = r.id
      /\ \A i \in DOMAIN issue_log :
            issue_log[i].id < r.id => Retired(issue_log[i].id) \/ Squashed(issue_log[i].id)

TerminatesAtCommit ==
  /\ status = "terminated" => \E k \in DOMAIN commit_log : EndsProgram(k)
  /\ \A k \in DOMAIN commit_log : commit_log[k].terminated => status = "terminated"

\* sentinels issued behind a branch that was later committed as mispredicted
SquashedSentinels ==
  {issue_log[i].id : i \in {j \in DOMAIN issue_log :
                              issue_log[j].instr = Sentinel /\ Squashed(issue_log[j].id)}}

\* C40: the simulation terminates only through the commit of a sentinel that is the
\* head of the ROB, with every older instruction retired; a sentinel addi x10,x0,255
\* fetched and executed behind a branch that later commits as mispredicted never
\* terminates the program.
C40_TerminationAtCommit ==
  [](/\ TerminatesAtCommit
     /\ \A id \in SquashedSentinels : ~Retired(id))

\* a sentinel went through the ALU and was squashed by the commit of a mispredicted
\* branch, and the program runs on
C40_Witness ==
  /\ status = "running"
  /\ \E k \in DOMAIN commit_log : commit_log[k].mispredicted
  /\ \E id \in SquashedSentinels : \E r \in result_log : r.id = id /\ r.unit = "alu"

====
